---- MODULE Spec2Model ----
(***************************************************************************)
(* Shop API (src/src/handler.ts): the catalog operations of the Lambda     *)
(* handler and the referential-integrity delete guard of deleteProduct,    *)
(* over the Shop (Catalog), Accounts and GamingSystems tables and the      *)
(* product-image bucket.  Every awaited storage call is one atomic step;   *)
(* the code that runs between two awaits belongs to the step of the call   *)
(* that precedes it.                                                       *)
(***************************************************************************)
EXTENDS Integers, Sequences, FiniteSets, TLC

(***************************************************************************)
(* Bounds and value universes                                              *)
(***************************************************************************)
\* largest number of table items one Scan page evaluates
MaxPage == 2
\* number of requests a behaviour serves
MaxRequests == 2
\* number of writes the owners of the Accounts and GamingSystems tables make
MaxOwnerWrites == 1
\* last reading of the server clock (the clock starts at 0)
MaxClock == 2

\* concurrent invocations of the Lambda function
Procs == {1, 2}
\* IDs that occur in entitlement lists and RequiredShopItem settings
ProductIds == {"X", "Y"}
\* IDs the modelled requests address
RequestIds == {"X"}
SystemIds == {"S", "T"}
\* scan order of the Shop table, the Accounts table and the GamingSystems table
ProductOrder == <<"X", "Y">>
AccountOrder == <<"A", "B">>
SystemOrder == <<"S", "T">>
AccountIds == {AccountOrder[i] : i \in 1..Len(AccountOrder)}
Images == {"img1", "img2"}
None == "none"

(***************************************************************************)
(* State                                                                   *)
(***************************************************************************)
VARIABLES
    Catalog,        \* Shop table: ID -> item or NoItem
    Accounts,       \* Accounts table: account ID -> Access map
    GamingSystems,  \* GamingSystems table: system ID -> RequiredShopItem
    S3,             \* stored objects: set of [bucket, gs, id, body]
    env,            \* process.env: [STAGE, ENVIRONMENT]
    pc,             \* per request: the await it is suspended at
    req,            \* per request: [method, id, body]
    loc,            \* per request: the locals of the running operation
    resp,           \* per request: the response returned
    hist,           \* per request: observations about the run (not program state)
    arrivals,       \* requests served so far
    ownerWrites,    \* writes of the table owners so far
    now             \* the server clock, new Date()

vars == <<Catalog, Accounts, GamingSystems, S3, env, pc, req, loc, resp, hist,
          arrivals, ownerWrites, now>>
data == <<Catalog, Accounts, GamingSystems, S3, env>>
\* the budgets and the clock, which no operation of the handler writes
count == <<arrivals, ownerWrites, now>>

(***************************************************************************)
(* Catalog items (interface Product, handler.ts:46-61)                     *)
(***************************************************************************)
\* an attribute that holds no timestamp
NoTime == -1

\* A Price, as JSON carries it and as the table stores it: a whole number
\* (Cents), a number with a fractional part (Fractional(n) is n + 1/2), a string
\* of digits (Digits), any other string (Words), or no value.
NoPrice == [kind |-> "missing", n |-> 0]
Cents(n) == [kind |-> "integer", n |-> n]
Fractional(n) == [kind |-> "fraction", n |-> n]
Digits(n) == [kind |-> "digits", n |-> n]
Words == [kind |-> "words", n |-> 0]
NaN == [kind |-> "NaN", n |-> 0]

\* Items, as JSON carries it: no value, an array of items, or a string
NoItems == [kind |-> "missing", list |-> <<>>]
Array(s) == [kind |-> "array", list |-> s]
NotArray == [kind |-> "string", list |-> <<>>]
\* interface ProductItem, handler.ts:41-44
Item(type, id) == [Type |-> type, ID |-> id]

\* The attributes of a record; None, NoPrice, NoItems, NoTime: the record has
\* no such attribute.  Flags are "true" or "false".  Category and Status are
\* attributes of the records index.js writes.  ShortDescription, Content
\* and GrantToNewAccounts, which no operation reads, are left out.
NoItem ==
    [ID |-> None, Name |-> None, GamingSystemID |-> None, Image |-> None,
     Price |-> NoPrice, Items |-> NoItems, IsArchived |-> None, IsFeatured |-> None,
     Type |-> None, Category |-> None, Status |-> None,
     CreatedAt |-> NoTime, UpdatedAt |-> NoTime]

\* a product as createProduct writes it for a body without flags
Product(id, name, gs, image) ==
    [NoItem EXCEPT !.ID = id, !.Name = name, !.GamingSystemID = gs, !.Image = image,
                   !.Price = Cents(100), !.Items = Array(<< Item("Classes", None) >>),
                   !.IsArchived = "false", !.IsFeatured = "false"]

\* a product written at time t
Stamped(item, t) == [item EXCEPT !.CreatedAt = t, !.UpdatedAt = t]

(***************************************************************************)
(* Accounts: Access maps a system ID to an entitlement entry.              *)
(***************************************************************************)
\* An entry is what Access[system] unmarshals to: nothing, a list of IDs, a
\* string (ids: its characters), a number or a map.
Missing == [kind |-> "missing", ids |-> <<>>, num |-> 0]
List(s) == [kind |-> "list", ids |-> s, num |-> 0]
Text(s) == [kind |-> "string", ids |-> s, num |-> 0]
Number(n) == [kind |-> "number", ids |-> <<>>, num |-> n]
Object == [kind |-> "object", ids |-> <<>>, num |-> 0]

\* Access fields that are no map of lists.  An Access that is absent, null or
\* a primitive has no property of a system's name: every lookup in it is
\* undefined, as in NoAccess.
NoAccess == [S |-> Missing, T |-> Missing]
MalformedAccess ==
    { NoAccess,
      [S |-> Text(<<>>), T |-> Missing],
      [S |-> Text(<<"X">>), T |-> Missing],
      [S |-> Text(<<"a", "X">>), T |-> Missing],
      [S |-> Number(0), T |-> Missing],
      [S |-> Number(5), T |-> Missing],
      [S |-> Object, T |-> Missing] }

AccessMaps ==
    { NoAccess,
      [S |-> List(<<"X">>), T |-> Missing],
      [S |-> Missing, T |-> List(<<"X">>)],
      [S |-> List(<<"Y">>), T |-> Missing] }

Email(a) == a \o "@mail"
SystemName(s) == "Sys" \o s

NoKey == 0
Min(a, b) == IF a < b THEN a ELSE b
Position(order, x) == CHOOSE i \in 1..Len(order) : order[i] = x

\* the items a Scan page evaluates: those after ExclusiveStartKey, at most k
PageItems(order, start, k) ==
    [i \in 1..(Min(start + k, Len(order)) - start) |-> order[start + i]]

\* the LastEvaluatedKey of that page: the key of the last evaluated item while
\* items remain; at the end of the table none, or (more) the last item's key
PageKey(order, start, k, more) ==
    LET end == Min(start + k, Len(order))
    IN IF end < Len(order) \/ (more /\ end > start) THEN end ELSE NoKey


(***************************************************************************)
(* Locals, responses and run observations                                  *)
(***************************************************************************)
NoLoc ==
    [product |-> NoItem, accountsWithAccess |-> <<>>, lastEvaluatedKey |-> NoKey,
     gamingSystemsRequiringItem |-> <<>>, gsLastEvaluatedKey |-> NoKey,
     result |-> NoItem, objectsToDelete |-> {}, imagePath |-> "",
     timestamp |-> NoTime, products |-> <<>>, resultKey |-> <<>>]

\* a request body: None (NoTime) stands for a key the body does not carry
NoBody ==
    [Name |-> None, GamingSystemID |-> None, imageBase64 |-> None, Image |-> None,
     Price |-> NoPrice, Items |-> NoItems, IsArchived |-> None, IsFeatured |-> None,
     Type |-> None, Category |-> None, Status |-> None,
     ID |-> None, CreatedAt |-> NoTime, UpdatedAt |-> NoTime]

\* id: the product the request names (pathParameters.id, or the ID or productId
\* of the body); path: the segments of event.path; auth: the caller's credentials
\* event.queryStringParameters: None, 0 and the empty text stand for a
\* parameter the request does not carry
NoQuery ==
    [featured |-> None, gamingSystemId |-> None, type |-> None,
     category |-> None, status |-> None,
     includeArchived |-> None, source |-> None, limit |-> 0, lastKey |-> <<>>]

\* systemId: pathParameters.id on the route of a gaming system;
\* malformed: event.body is not JSON text
NoReq ==
    [method |-> None, id |-> None, path |-> <<>>, auth |-> None, body |-> NoBody,
     malformed |-> FALSE, systemId |-> None, query |-> NoQuery]

NoHeaders ==
    [AllowOrigin |-> None, AllowHeaders |-> None, AllowMethods |-> None,
     ContentType |-> None]

\* CORS_HEADERS, handler.ts:33-38
CORS_HEADERS ==
    [AllowOrigin |-> "*",
     AllowHeaders |-> "Content-Type,X-Amz-Date,Authorization,X-Api-Key,X-Amz-Security-Token",
     AllowMethods |-> "GET,POST,PUT,PATCH,DELETE,OPTIONS",
     ContentType |-> "application/json"]

NoResp ==
    [statusCode |-> 0, headers |-> NoHeaders,
     error |-> None, message |-> <<>>, accounts |-> <<>>,
     products |-> <<>>, lastKey |-> <<>>,
     gamingSystems |-> <<>>, item |-> NoItem, operation |-> None]

\* a key of the Shop table (ID) or of its GamingSystemID-index (both)
NoStartKey == [ID |-> None, GamingSystemID |-> None]

\* pre: the catalog record of the request's ID when the request arrived;
\* intr: writes by others while the request was open; faulted: a storage call
\* of the request threw, at the await faultAt; seq: the request's arrival number; prior: the arrival
\* numbers of the requests already answered when it arrived; at: the clock then;
\* authChecked: checkAuthentication was called; evaluated: the IDs the storage
\* page of a list evaluated, pageKey: its LastEvaluatedKey; walked: the IDs on the pages the caller got before
\* this one, when the request follows a lastKey;
\* accStart: ExclusiveStartKey of the last page of the accounts scan;
\* emptyPage: some page held no item but a LastEvaluatedKey;
\* cleanup: how far deleteProductFolder got.
NoHist ==
    [pre |-> NoItem, intr |-> {}, faulted |-> FALSE, faultAt |-> None,
     authChecked |-> FALSE, evaluated |-> <<>>, pageKey |-> NoStartKey,
     walked |-> <<>>,
     seq |-> 0, prior |-> {}, at |-> NoTime,
     accStart |-> NoKey, emptyPage |-> FALSE, cleanup |-> None]

\* response(statusCode, body), handler.ts:64-68
response(statusCode, body) ==
    [body EXCEPT !.statusCode = statusCode, !.headers = CORS_HEADERS]

\* error.message, the text of whatever was thrown
ErrorMessage == << [part |-> "error", names |-> <<>>] >>

\* handleError(error, operation), handler.ts:71-78
handleError(operation) ==
    response(500, [NoResp EXCEPT !.error = "Internal Server Error",
                                 !.message = ErrorMessage,
                                 !.operation = operation])

NotFound == response(404, [NoResp EXCEPT !.error = "Product not found"])

\* hist after a step of p that leaves p's own record as `own` and writes the
\* catalog record of ID i (kind = None: no write)
HistAfter(p, own, i, kind) ==
    [q \in Procs |->
        IF q = p THEN own
        ELSE IF kind # None /\ pc[q] # "idle" /\ req[q].id = i
             THEN [hist[q] EXCEPT !.intr = @ \cup {kind}]
             ELSE hist[q]]

\* p returns r: the operation's locals are gone
Return(p, r) ==
    /\ resp' = [resp EXCEPT ![p] = r]
    /\ pc' = [pc EXCEPT ![p] = "done"]
    /\ loc' = [loc EXCEPT ![p] = NoLoc]

\* a throw that no catch block turns into a response: the invocation rejects
ThrowEscapes(p, operation) ==
    /\ pc' = [pc EXCEPT ![p] = "done"]
    /\ loc' = [loc EXCEPT ![p] = NoLoc]
    /\ UNCHANGED resp
    /\ hist' = [hist EXCEPT ![p].faulted = TRUE, ![p].faultAt = pc[p]]

\* a storage call of p throws (not a failed condition): the operation's catch
\* block answers through handleError
Throw(p, operation) ==
    /\ Return(p, handleError(operation))
    /\ hist' = [hist EXCEPT ![p].faulted = TRUE, ![p].faultAt = pc[p]]

\* event.path, by segments: {id} stands for the segment of the product ID
AdminShop == <<"admin", "shop">>
AdminShopId == <<"admin", "shop", "{id}">>
PublicProduct == <<"shop", "products", "product">>
PublicSystem == <<"shop", "systems", "system">>
UploadImage == <<"upload-image">>
Paths ==
    { AdminShop, AdminShopId, <<"shop">>, <<"shop", "{id}">>,
      PublicProduct \o <<"{id}">>, <<"admin">> \o PublicProduct \o <<"{id}">>,
      AdminShop \o UploadImage, <<"shop">> \o UploadImage }

\* path.includes(pattern), handler.ts:120, 139, 186
PathIncludes(path, pattern) ==
    \E i \in 0..(Len(path) - Len(pattern)) :
        SubSeq(path, i + 1, i + Len(pattern)) = pattern

(***************************************************************************)
(* Continuation tokens: lastKey is encodeURIComponent(JSON.stringify(key)), *)
(* and the key of the next page is JSON.parse(decodeURIComponent(lastKey))  *)
(* (handler.ts:343-345 and 413-415, and the same in the other lists).       *)
(* Texts are sequences of characters.                                       *)
(***************************************************************************)
\* the text of an ID: product Y has an ID with a percent sign and a quote in it
IdText(id) ==
    CASE id = "X" -> << "X" >>
      [] id = "Y" -> << "5", "%", "\"" >>
      [] OTHER -> << id >>

Unknown == "unknown"
IdOf(text) ==
    IF \E id \in ProductIds \cup SystemIds : IdText(id) = text
    THEN CHOOSE id \in ProductIds \cup SystemIds : IdText(id) = text
    ELSE Unknown

NameID == << "I", "D" >>
NameGamingSystemID == << "G", "a", "m", "i", "n", "g", "S", "y", "s", "t", "e", "m", "I", "D" >>

RECURSIVE Flatten(_)
Flatten(texts) == IF texts = <<>> THEN <<>> ELSE Head(texts) \o Flatten(Tail(texts))

\* JSON.stringify of a string: quotes around it, quote and backslash escaped
JSON_string(text) ==
    << "\"" >>
    \o Flatten([i \in 1..Len(text) |->
                   IF text[i] \in {"\"", "\\"} THEN << "\\", text[i] >> ELSE << text[i] >>])
    \o << "\"" >>

\* JSON.stringify(result.LastEvaluatedKey)
JSON_stringify(key) ==
    << "{" >> \o JSON_string(NameID) \o << ":" >> \o JSON_string(IdText(key.ID))
    \o (IF key.GamingSystemID = None THEN <<>>
        ELSE << "," >> \o JSON_string(NameGamingSystemID) \o << ":" >>
             \o JSON_string(IdText(key.GamingSystemID)))
    \o << "}" >>

\* the characters encodeURIComponent escapes, with their codes
PercentCode(c) ==
    CASE c = "{" -> << "7", "B" >>
      [] c = "}" -> << "7", "D" >>
      [] c = "\"" -> << "2", "2" >>
      [] c = ":" -> << "3", "A" >>
      [] c = "," -> << "2", "C" >>
      [] c = "%" -> << "2", "5" >>
      [] c = "\\" -> << "5", "C" >>
      [] OTHER -> <<>>
Escaped == {"{", "}", "\"", ":", ",", "%", "\\"}

encodeURIComponent(text) ==
    Flatten([i \in 1..Len(text) |->
                IF text[i] \in Escaped THEN << "%" >> \o PercentCode(text[i])
                ELSE << text[i] >>])

\* a text that is none: the conversion threw (URIError, SyntaxError)
Thrown == << "Error", "Error" >>

\* decodeURIComponent: %XY is the character of code XY; a percent sign that no
\* code follows is a URIError
RECURSIVE decodeURIComponent(_)
decodeURIComponent(text) ==
    IF text = <<>> THEN <<>>
    ELSE IF Head(text) # "%"
    THEN LET rest == decodeURIComponent(Tail(text))
         IN IF rest = Thrown THEN Thrown ELSE << Head(text) >> \o rest
    ELSE IF Len(text) < 3 \/ ~\E c \in Escaped : PercentCode(c) = SubSeq(text, 2, 3)
    THEN Thrown
    ELSE LET rest == decodeURIComponent(SubSeq(text, 4, Len(text)))
         IN IF rest = Thrown THEN Thrown
            ELSE << CHOOSE c \in Escaped : PercentCode(c) = SubSeq(text, 2, 3) >> \o rest

\* the JSON string whose opening quote is at text[i - 1]: its value and the
\* position after its closing quote (next = 0: the text is no JSON)
RECURSIVE ReadString(_, _)
ReadString(text, i) ==
    IF i > Len(text) THEN [val |-> <<>>, next |-> 0]
    ELSE IF text[i] = "\"" THEN [val |-> <<>>, next |-> i + 1]
    ELSE IF text[i] = "\\"
    THEN IF i + 1 > Len(text) \/ text[i + 1] \notin {"\"", "\\"}
         THEN [val |-> <<>>, next |-> 0]
         ELSE LET rest == ReadString(text, i + 2)
              IN [val |-> << text[i + 1] >> \o rest.val, next |-> rest.next]
    ELSE LET rest == ReadString(text, i + 1)
         IN [val |-> << text[i] >> \o rest.val, next |-> rest.next]

\* the members "name":"value" from text[i] on, up to the closing brace that
\* ends the text: the key they spell (ID = Unknown: the text is no JSON)
RECURSIVE ReadMembers(_, _, _)
ReadMembers(text, i, key) ==
    LET bad == [key EXCEPT !.ID = Unknown]
    IN IF i > Len(text) \/ text[i] # "\"" THEN bad
       ELSE LET name == ReadString(text, i + 1)
            IN IF name.next = 0 \/ name.next + 1 > Len(text)
                  \/ text[name.next] # ":" \/ text[name.next + 1] # "\""
               THEN bad
               ELSE LET value == ReadString(text, name.next + 2)
                        read == IF name.val = NameID
                                THEN [key EXCEPT !.ID = IdOf(value.val)]
                                ELSE IF name.val = NameGamingSystemID
                                THEN [key EXCEPT !.GamingSystemID = IdOf(value.val)]
                                ELSE key
                    IN IF value.next = 0 \/ value.next > Len(text) THEN bad
                       ELSE IF text[value.next] = "}"
                       THEN IF value.next = Len(text) THEN read ELSE bad
                       ELSE IF text[value.next] = ","
                       THEN ReadMembers(text, value.next + 1, read)
                       ELSE bad

\* JSON.parse of the text of a key
JSON_parse(text) ==
    IF text = Thrown \/ Len(text) < 2 \/ text[1] # "{"
    THEN [NoStartKey EXCEPT !.ID = Unknown]
    ELSE ReadMembers(text, 2, NoStartKey)

(***************************************************************************)
(* getProduct, handler.ts:297-314                                          *)
(***************************************************************************)
getProduct(p) ==
    /\ pc[p] = "get_get"
    /\ \/ /\ Return(p, IF Catalog[req[p].id] = NoItem
                       THEN NotFound
                       ELSE response(200, [NoResp EXCEPT !.item = Catalog[req[p].id]]))
          /\ UNCHANGED hist
       \/ Throw(p, "getProduct")
    /\ UNCHANGED <<Catalog, Accounts, GamingSystems, S3, env, req, count>>

(***************************************************************************)
(* The lists: getProductsByGamingSystem (handler.ts:318-418),              *)
(* getAllProducts (421-466), getProductsByType (469-517) and               *)
(* getFeaturedProducts (755-800).  Requests carry no minPrice or maxPrice. *)
(***************************************************************************)
EssentialsName == "RealmForge Essentials"

\* the records of the Shop table in scan order, and those of one partition of
\* the GamingSystemID-index
TableOrder == SelectSeq(ProductOrder, LAMBDA i : Catalog[i] # NoItem)
IndexOrder(gamingSystemId) ==
    SelectSeq(ProductOrder, LAMBDA i : /\ Catalog[i] # NoItem
                                       /\ Catalog[i].GamingSystemID = gamingSystemId)

\* handler.ts:343-345: params.ExclusiveStartKey
ExclusiveStartKey(queryParams) ==
    IF queryParams.lastKey = <<>> THEN NoStartKey
    ELSE JSON_parse(decodeURIComponent(queryParams.lastKey))

\* the number of records of the order that a page starting after key skips
StartOf(order, key) ==
    IF key.ID \notin ProductIds THEN 0
    ELSE Cardinality({i \in 1..Len(order) :
                         Position(ProductOrder, order[i]) <= Position(ProductOrder, key.ID)})

\* handler.ts:347-349: params.Limit; the service evaluates at most MaxPage
\* records for a page
PageLimit(queryParams) ==
    IF queryParams.limit = 0 THEN MaxPage ELSE Min(queryParams.limit, MaxPage)

\* handler.ts:339-341, 487-491, 767-771: includeArchived of the three lists
\* that take no isAdminRoute
IncludeArchived(queryParams) == queryParams.includeArchived = "true"

\* handler.ts:431-432: includeArchived of getAllProducts
IncludeArchivedAll(queryParams, isAdminRoute) ==
    \/ queryParams.includeArchived = "true"
    \/ queryParams.includeArchived # "false" /\ isAdminRoute

\* FilterExpression IsArchived = :archived, added unless includeArchived
NotArchived(i, includeArchived) == includeArchived \/ Catalog[i].IsArchived = "false"

\* handler.ts:405-413, 453-462: the body of a list response
ListBody(products, lastEvaluatedKey) ==
    [NoResp EXCEPT
        !.products = [i \in 1..Len(products) |-> Catalog[products[i]]],
        !.lastKey = IF lastEvaluatedKey = NoStartKey THEN <<>>
                    ELSE encodeURIComponent(JSON_stringify(lastEvaluatedKey))]

\* the LastEvaluatedKey of a page that ended at position end of the order
KeyAt(order, end, gamingSystemId) ==
    IF end = NoKey THEN NoStartKey
    ELSE [ID |-> order[end], GamingSystemID |-> gamingSystemId]

\* one Scan of the Shop table with a filter, answered as a list; matching: the
\* products the FilterExpression lets through
ScanList(p, matching, operation) ==
    \/ \E k \in 1..PageLimit(req[p].query), more \in BOOLEAN :
          LET start == StartOf(TableOrder, ExclusiveStartKey(req[p].query))
              evaluated == PageItems(TableOrder, start, k)
              end == PageKey(TableOrder, start, k, more)
          IN /\ Return(p, response(200, ListBody(SelectSeq(evaluated, LAMBDA i : i \in matching),
                                                 KeyAt(TableOrder, end, None))))
             /\ hist' = [hist EXCEPT ![p].evaluated = evaluated,
                                      ![p].pageKey = KeyAt(TableOrder, end, None)]
    \/ Throw(p, operation)

\* handler.ts:421-466
getAllProducts(p) ==
    /\ pc[p] = "all_scan"
    /\ LET includeArchived ==
               IncludeArchivedAll(req[p].query, PathIncludes(req[p].path, AdminShop))
       IN ScanList(p, {i \in ProductIds :
                            /\ NotArchived(i, includeArchived)
                            /\ req[p].query.type # None
                                  => Catalog[i].Type = req[p].query.type},
                   "getAllProducts")
    /\ UNCHANGED <<Catalog, Accounts, GamingSystems, S3, env, req, count>>

\* handler.ts:469-517
getProductsByType(p) ==
    /\ pc[p] = "type_scan"
    /\ ScanList(p, {i \in ProductIds :
                         /\ Catalog[i].Type = req[p].query.type
                         /\ NotArchived(i, IncludeArchived(req[p].query))},
                "getProductsByType")
    /\ UNCHANGED <<Catalog, Accounts, GamingSystems, S3, env, req, count>>

\* handler.ts:755-800
getFeaturedProducts(p) ==
    /\ pc[p] = "featured_scan"
    /\ ScanList(p, {i \in ProductIds :
                         /\ Catalog[i].IsFeatured = "true"
                         /\ NotArchived(i, IncludeArchived(req[p].query))},
                "getFeaturedProducts")
    /\ UNCHANGED <<Catalog, Accounts, GamingSystems, S3, env, req, count>>

\* handler.ts:130-136, 173-175: the system the list is asked for
SystemOf(r) ==
    IF PathIncludes(r.path, PublicSystem) THEN r.systemId ELSE r.query.gamingSystemId

\* handler.ts:361, 366: whether the essentials query follows
AddsEssentials(queryParams) ==
    queryParams.source = "realm-create" /\ ~IncludeArchived(queryParams)

\* handler.ts:318-362 and, without the essentials query, 400-418
getProductsByGamingSystem(p) ==
    /\ pc[p] = "gs_query"
    /\ \/ \E k \in 1..PageLimit(req[p].query), more \in BOOLEAN :
            LET order == IndexOrder(SystemOf(req[p]))
                start == StartOf(order, ExclusiveStartKey(req[p].query))
                evaluated == PageItems(order, start, k)
                end == PageKey(order, start, k, more)
                products == SelectSeq(evaluated,
                               LAMBDA i : NotArchived(i, IncludeArchived(req[p].query)))
                lastEvaluatedKey == KeyAt(order, end, SystemOf(req[p]))
            IN /\ hist' = [hist EXCEPT ![p].evaluated = evaluated,
                                        ![p].pageKey = lastEvaluatedKey]
               /\ IF AddsEssentials(req[p].query)
                  THEN /\ loc' = [loc EXCEPT ![p].products = products,
                                             ![p].resultKey = ListBody(<<>>, lastEvaluatedKey).lastKey]
                       /\ pc' = [pc EXCEPT ![p] = "gs_essentials"]
                       /\ UNCHANGED resp
                  ELSE Return(p, response(200, ListBody(products, lastEvaluatedKey)))
       \/ Throw(p, "getProductsByGamingSystem")
    /\ UNCHANGED <<Catalog, Accounts, GamingSystems, S3, env, req, count>>

\* handler.ts:366-403: the query for the product named RealmForge Essentials,
\* which goes first in the list unless the page holds it
GsEssentials(p) ==
    /\ pc[p] = "gs_essentials"
    /\ \/ /\ \E k \in 1..MaxPage :
               LET order == IndexOrder(SystemOf(req[p]))
                   items == SelectSeq(PageItems(order, 0, k),
                                      LAMBDA i : Catalog[i].Name = EssentialsName)
                   alreadyIncluded ==
                       \E n \in 1..Len(loc[p].products) : loc[p].products[n] = items[1]
                   products == IF Len(items) > 0 /\ ~alreadyIncluded
                               THEN << items[1] >> \o loc[p].products
                               ELSE loc[p].products
               IN Return(p, response(200, [ListBody(products, NoStartKey)
                                             EXCEPT !.lastKey = loc[p].resultKey]))
          /\ UNCHANGED hist
       \/ Throw(p, "getProductsByGamingSystem")
    /\ UNCHANGED <<Catalog, Accounts, GamingSystems, S3, env, req, count>>

(***************************************************************************)
(* deleteProduct, handler.ts:803-941                                       *)
(***************************************************************************)
\* handler.ts:841-844: accessMap && accessMap[gamingSystemId] &&
\* accessMap[gamingSystemId].includes(id)
\* JavaScript truthiness of an entry: undefined, "" and 0 are falsy
Truthy(entry) ==
    CASE entry.kind = "missing" -> FALSE
      [] entry.kind = "string" -> entry.ids # <<>>
      [] entry.kind = "number" -> entry.num # 0
      [] OTHER -> TRUE

\* Array.prototype.includes: an element equals id; String.prototype.includes:
\* id (one character here) occurs in the string
Includes(entry, id) == \E i \in 1..Len(entry.ids) : entry.ids[i] = id

\* handler.ts:844: a number and a map have no method includes: TypeError
Raises(a, gamingSystemId) ==
    /\ gamingSystemId \in DOMAIN Accounts[a]
    /\ Truthy(Accounts[a][gamingSystemId])
    /\ Accounts[a][gamingSystemId].kind \in {"number", "object"}

HasAccess(a, gamingSystemId, id) ==
    LET accessMap == Accounts[a]
    IN /\ gamingSystemId \in DOMAIN accessMap
       /\ Truthy(accessMap[gamingSystemId])
       /\ accessMap[gamingSystemId].kind \in {"list", "string"}
       /\ Includes(accessMap[gamingSystemId], id)


\* a lookup that goes on to the scans without the check of handler.ts:813
DelGetUnchecked(p) ==
    /\ pc[p] = "del_get"
    /\ \/ /\ loc' = [loc EXCEPT ![p].product = Catalog[req[p].id]]
          /\ pc' = [pc EXCEPT ![p] = "del_scanAccounts"]
          /\ UNCHANGED <<resp, hist>>
       \/ Throw(p, "deleteProduct")
    /\ UNCHANGED <<Catalog, Accounts, GamingSystems, S3, env, req, count>>

\* handler.ts:811-818
DelGet(p) ==
    /\ pc[p] = "del_get"
    /\ \/ /\ Catalog[req[p].id] = NoItem
          /\ Return(p, NotFound)
          /\ UNCHANGED hist
       \/ /\ Catalog[req[p].id] # NoItem
          /\ loc' = [loc EXCEPT ![p].product = Catalog[req[p].id]]
          /\ pc' = [pc EXCEPT ![p] = "del_scanAccounts"]
          /\ UNCHANGED <<resp, hist>>
       \/ Throw(p, "deleteProduct")
    /\ UNCHANGED <<Catalog, Accounts, GamingSystems, S3, env, req, count>>

\* handler.ts:839-852: the accounts of one page that hold the item
AccountsPageMatches(items, gamingSystemId, id) ==
    LET hit == SelectSeq(items, LAMBDA a : HasAccess(a, gamingSystemId, id))
    IN [i \in 1..Len(hit) |-> [ID |-> hit[i], Email |-> Email(hit[i])]]


\* a scan that reads the first page only
AccountsFirstPageOnly(key) == FALSE

\* handler.ts:854-855: whether the loop asks for another page
AccountsScanContinues(key) == key # NoKey

\* an accounts scan whose page request is never answered
DelScanAccountsStalls(p) ==
    /\ pc[p] = "del_scanAccounts"
    /\ UNCHANGED vars

\* handler.ts:824-855: one iteration of the accounts scan loop
DelScanAccounts(p) ==
    /\ pc[p] = "del_scanAccounts"
    /\ \/ \E k \in 1..MaxPage, more \in BOOLEAN :
            LET start == loc[p].lastEvaluatedKey
                items == PageItems(AccountOrder, start, k)
                key == PageKey(AccountOrder, start, k, more)
            IN IF \E i \in 1..Len(items) : Raises(items[i], loc[p].product.GamingSystemID)
               THEN \* the TypeError reaches the catch block of handler.ts:935
                    /\ Return(p, handleError("deleteProduct"))
                    /\ UNCHANGED hist
               ELSE /\ loc' = [loc EXCEPT
                          ![p].accountsWithAccess =
                              @ \o AccountsPageMatches(items, loc[p].product.GamingSystemID, req[p].id),
                          ![p].lastEvaluatedKey = key]
                    /\ hist' = [hist EXCEPT
                          ![p].accStart = start,
                          ![p].emptyPage = @ \/ (Len(items) = 0 /\ key # NoKey)]
                    /\ pc' = [pc EXCEPT ![p] =
                          IF AccountsScanContinues(key) THEN "del_scanAccounts"
                          ELSE "del_scanSystems"]
                    /\ UNCHANGED resp
       \/ Throw(p, "deleteProduct")
    /\ UNCHANGED <<Catalog, Accounts, GamingSystems, S3, env, req, count>>

\* handler.ts:868-871: FilterExpression RequiredShopItem = :shopItemId
SystemsPageMatches(items, id) ==
    LET hit == SelectSeq(items, LAMBDA s : GamingSystems[s] = id)
    IN [i \in 1..Len(hit) |-> [ID |-> hit[i], Name |-> SystemName(hit[i])]]


\* a scan that reads the first page only
SystemsFirstPageOnly(key) == FALSE

\* handler.ts:889-890
SystemsScanContinues(key) == key # NoKey


\* verdicts that compare with >= 0, or that look at one list only
BlockedByAccountsOnly(accountsWithAccess, gamingSystemsRequiringItem) ==
    Len(accountsWithAccess) > 0

BlockedOffByOne(accountsWithAccess, gamingSystemsRequiringItem) ==
    Len(accountsWithAccess) >= 0 \/ Len(gamingSystemsRequiringItem) >= 0

BlockedBySystemsOnly(accountsWithAccess, gamingSystemsRequiringItem) ==
    Len(gamingSystemsRequiringItem) > 0

\* handler.ts:893: the guard's verdict
Blocked(accountsWithAccess, gamingSystemsRequiringItem) ==
    Len(accountsWithAccess) > 0 \/ Len(gamingSystemsRequiringItem) > 0


\* a conflict response whose message counts the systems instead of naming them
ConflictCountsSystems(accountsWithAccess, gamingSystemsRequiringItem) ==
    response(409, [NoResp EXCEPT
        !.error = "Cannot delete product",
        !.message = << [part |-> "systems", names |-> <<>>,
                        count |-> Len(gamingSystemsRequiringItem)] >>,
        !.accounts = accountsWithAccess,
        !.gamingSystems = gamingSystemsRequiringItem])

\* handler.ts:894-910: the conflict response
Conflict(accountsWithAccess, gamingSystemsRequiringItem) ==
    LET systemsPart ==
            IF Len(gamingSystemsRequiringItem) > 0
            THEN << [part |-> "systems",
                     names |-> [i \in 1..Len(gamingSystemsRequiringItem) |->
                                   gamingSystemsRequiringItem[i].Name],
                     count |-> 0] >>
            ELSE <<>>
        accountsPart ==
            IF Len(accountsWithAccess) > 0
            THEN << [part |-> "accounts", names |-> <<>>,
                     count |-> Len(accountsWithAccess)] >>
            ELSE <<>>
    IN response(409, [NoResp EXCEPT !.error = "Cannot delete product",
                                    !.message = systemsPart \o accountsPart,
                                    !.accounts = accountsWithAccess,
                                    !.gamingSystems = gamingSystemsRequiringItem])

\* a systems scan that takes a failed page request for the end of the table
DelScanSystemsSwallows(p) ==
    /\ pc[p] = "del_scanSystems"
    /\ \/ \E k \in 1..MaxPage, more \in BOOLEAN :
            LET start == loc[p].gsLastEvaluatedKey
                items == SystemsPageMatches(PageItems(SystemOrder, start, k), req[p].id)
                key == PageKey(SystemOrder, start, k, more)
                found == loc[p].gamingSystemsRequiringItem \o items
            IN /\ hist' = [hist EXCEPT
                     ![p].emptyPage = @ \/ (Len(items) = 0 /\ key # NoKey)]
               /\ IF SystemsScanContinues(key)
                  THEN /\ pc' = [pc EXCEPT ![p] = "del_scanSystems"]
                       /\ loc' = [loc EXCEPT ![p].gamingSystemsRequiringItem = found,
                                             ![p].gsLastEvaluatedKey = key]
                       /\ UNCHANGED resp
                  ELSE IF Blocked(loc[p].accountsWithAccess, found)
                  THEN Return(p, Conflict(loc[p].accountsWithAccess, found))
                  ELSE /\ pc' = [pc EXCEPT ![p] = "del_delete"]
                       /\ loc' = [loc EXCEPT ![p].gamingSystemsRequiringItem = found,
                                             ![p].gsLastEvaluatedKey = key]
                       /\ UNCHANGED resp
       \/ /\ hist' = [hist EXCEPT ![p].faulted = TRUE, ![p].faultAt = pc[p]]
          /\ IF Blocked(loc[p].accountsWithAccess, loc[p].gamingSystemsRequiringItem)
             THEN Return(p, Conflict(loc[p].accountsWithAccess,
                                     loc[p].gamingSystemsRequiringItem))
             ELSE /\ pc' = [pc EXCEPT ![p] = "del_delete"]
                  /\ UNCHANGED <<loc, resp>>
    /\ UNCHANGED <<Catalog, Accounts, GamingSystems, S3, env, req, count>>

\* handler.ts:861-911: one iteration of the systems scan loop and, after the
\* last page, the verdict
DelScanSystems(p) ==
    /\ pc[p] = "del_scanSystems"
    /\ \/ \E k \in 1..MaxPage, more \in BOOLEAN :
            LET start == loc[p].gsLastEvaluatedKey
                items == SystemsPageMatches(PageItems(SystemOrder, start, k), req[p].id)
                key == PageKey(SystemOrder, start, k, more)
                found == loc[p].gamingSystemsRequiringItem \o items
            IN /\ hist' = [hist EXCEPT
                     ![p].emptyPage = @ \/ (Len(items) = 0 /\ key # NoKey)]
               /\ IF SystemsScanContinues(key)
                  THEN /\ pc' = [pc EXCEPT ![p] = "del_scanSystems"]
                       /\ loc' = [loc EXCEPT ![p].gamingSystemsRequiringItem = found,
                                             ![p].gsLastEvaluatedKey = key]
                       /\ UNCHANGED resp
                  ELSE IF Blocked(loc[p].accountsWithAccess, found)
                  THEN Return(p, Conflict(loc[p].accountsWithAccess, found))
                  ELSE /\ pc' = [pc EXCEPT ![p] = "del_delete"]
                       /\ loc' = [loc EXCEPT ![p].gamingSystemsRequiringItem = found,
                                             ![p].gsLastEvaluatedKey = key]
                       /\ UNCHANGED resp
       \/ Throw(p, "deleteProduct")
    /\ UNCHANGED <<Catalog, Accounts, GamingSystems, S3, env, req, count>>

\* imageUploadService.ts:84 and :163: the bucket of an environment
Bucket(environment) ==
    IF environment = "prod" THEN "prod-realmforge-shop-media"
    ELSE "dev-realmforge-shop-media"

\* handler.ts:928: process.env.ENVIRONMENT || 'dev'
DeleteEnvironment == IF env.ENVIRONMENT = None THEN "dev" ELSE env.ENVIRONMENT


\* a delete whose failed condition is answered like any other error
DelDeleteConditionUncaught(p) ==
    /\ pc[p] = "del_delete"
    /\ \/ /\ Catalog[req[p].id] = NoItem
          /\ Return(p, handleError("deleteProduct"))
          /\ UNCHANGED <<Catalog, hist>>
       \/ /\ Catalog[req[p].id] # NoItem
          /\ Catalog' = [Catalog EXCEPT ![req[p].id] = NoItem]
          /\ loc' = [loc EXCEPT ![p].result = Catalog[req[p].id]]
          /\ hist' = HistAfter(p, hist[p], req[p].id, "deleted")
          /\ pc' = [pc EXCEPT ![p] = "del_list"]
          /\ UNCHANGED resp
       \/ /\ Throw(p, "deleteProduct")
          /\ UNCHANGED Catalog
    /\ UNCHANGED <<Accounts, GamingSystems, S3, env, req, count>>

\* handler.ts:914-925, 935-938: the conditioned delete
DelDelete(p) ==
    /\ pc[p] = "del_delete"
    /\ \/ /\ Catalog[req[p].id] = NoItem      \* ConditionalCheckFailedException
          /\ Return(p, NotFound)
          /\ UNCHANGED <<Catalog, hist>>
       \/ /\ Catalog[req[p].id] # NoItem
          /\ Catalog' = [Catalog EXCEPT ![req[p].id] = NoItem]
          /\ loc' = [loc EXCEPT ![p].result = Catalog[req[p].id]]
          /\ hist' = HistAfter(p, hist[p], req[p].id, "deleted")
          /\ pc' = [pc EXCEPT ![p] = "del_list"]
          /\ UNCHANGED resp
       \/ /\ Throw(p, "deleteProduct")
          /\ UNCHANGED Catalog
    /\ UNCHANGED <<Accounts, GamingSystems, S3, env, req, count>>

\* handler.ts:931-934
Deleted(p) ==
    response(200, [NoResp EXCEPT !.item = loc[p].result])

\* imageUploadService.ts:163-176: the objects under `${gamingSystemId}/${shopId}/`
FolderObjects(gamingSystemId, shopId, environment) ==
    {o \in S3 : /\ o.bucket = Bucket(environment)
                /\ o.gs = gamingSystemId
                /\ o.id = shopId}

\* a cleanup whose ListObjectsV2 error reaches deleteProduct's catch block
DelListFolderThrows(p) ==
    /\ pc[p] = "del_list"
    /\ LET found == FolderObjects(loc[p].product.GamingSystemID, req[p].id,
                                  DeleteEnvironment)
       IN \/ /\ found = {}
             /\ Return(p, Deleted(p))
             /\ hist' = [hist EXCEPT ![p].cleanup = "empty"]
          \/ /\ found # {}
             /\ loc' = [loc EXCEPT ![p].objectsToDelete =
                                      {[bucket |-> o.bucket, gs |-> o.gs, id |-> o.id] : o \in found}]
             /\ pc' = [pc EXCEPT ![p] = "del_objects"]
             /\ UNCHANGED <<resp, hist>>
          \/ /\ Return(p, handleError("deleteProduct"))
             /\ hist' = [hist EXCEPT ![p].cleanup = "listFailed"]
    /\ UNCHANGED <<Catalog, Accounts, GamingSystems, S3, env, req, count>>

\* imageUploadService.ts:162-181, 199-203 and handler.ts:929-934:
\* deleteProductFolder lists the folder; an error is logged and swallowed
DelListFolder(p) ==
    /\ pc[p] = "del_list"
    /\ LET found == FolderObjects(loc[p].product.GamingSystemID, req[p].id,
                                  DeleteEnvironment)
       IN \/ /\ found = {}
             /\ Return(p, Deleted(p))
             /\ hist' = [hist EXCEPT ![p].cleanup = "empty"]
          \/ /\ found # {}
             /\ loc' = [loc EXCEPT ![p].objectsToDelete =
                                      {[bucket |-> o.bucket, gs |-> o.gs, id |-> o.id] : o \in found}]
             /\ pc' = [pc EXCEPT ![p] = "del_objects"]
             /\ UNCHANGED <<resp, hist>>
          \/ /\ Return(p, Deleted(p))
             /\ hist' = [hist EXCEPT ![p].cleanup = "listFailed"]
    /\ UNCHANGED <<Catalog, Accounts, GamingSystems, S3, env, req, count>>


\* a cleanup whose DeleteObjects error reaches deleteProduct's catch block
DelObjectsThrows(p) ==
    /\ pc[p] = "del_objects"
    /\ \/ /\ S3' = {o \in S3 : [bucket |-> o.bucket, gs |-> o.gs, id |-> o.id]
                                  \notin loc[p].objectsToDelete}
          /\ hist' = [hist EXCEPT ![p].cleanup = "removed"]
          /\ Return(p, Deleted(p))
       \/ /\ UNCHANGED S3
          /\ hist' = [hist EXCEPT ![p].cleanup = "deleteFailed"]
          /\ Return(p, handleError("deleteProduct"))
    /\ UNCHANGED <<Catalog, Accounts, GamingSystems, env, req, count>>

\* imageUploadService.ts:183-203 and handler.ts:929-934: DeleteObjects by key
DelObjects(p) ==
    /\ pc[p] = "del_objects"
    /\ \/ /\ S3' = {o \in S3 : [bucket |-> o.bucket, gs |-> o.gs, id |-> o.id]
                                  \notin loc[p].objectsToDelete}
          /\ hist' = [hist EXCEPT ![p].cleanup = "removed"]
       \/ /\ UNCHANGED S3
          /\ hist' = [hist EXCEPT ![p].cleanup = "deleteFailed"]
    /\ Return(p, Deleted(p))
    /\ UNCHANGED <<Catalog, Accounts, GamingSystems, env, req, count>>

(***************************************************************************)
(* uploadProductImage, imageUploadService.ts:77-149                        *)
(***************************************************************************)
\* handler.ts:254-255, 595-596, 684-685
UploadEnvironment == IF env.STAGE = "dev" THEN "dev" ELSE "prod"

\* imageUploadService.ts:85: the key, which is the returned image path
ImageKey(gamingSystemId, shopId) == gamingSystemId \o "/" \o shopId \o "/product.jpg"

\* imageUploadService.ts:91-100: PutObject replaces the object of that key
PutObject(gamingSystemId, shopId, environment, body) ==
    {o \in S3 : ~(/\ o.bucket = Bucket(environment)
                  /\ o.gs = gamingSystemId
                  /\ o.id = shopId)}
    \cup {[bucket |-> Bucket(environment), gs |-> gamingSystemId, id |-> shopId,
           body |-> body]}

\* handler.ts:609-612 and 704-707
UploadFailed ==
    response(500, [NoResp EXCEPT !.error = "Failed to upload image",
                                 !.message = ErrorMessage])

(***************************************************************************)
(* createProduct, handler.ts:521-647                                       *)
(***************************************************************************)
\* handler.ts:589-613
CrUpload(p) ==
    /\ pc[p] = "cr_upload"
    /\ \/ /\ S3' = PutObject(req[p].body.GamingSystemID, req[p].id,
                             UploadEnvironment, req[p].body.imageBase64)
          /\ loc' = [loc EXCEPT ![p].imagePath =
                                   ImageKey(req[p].body.GamingSystemID, req[p].id)]
          /\ pc' = [pc EXCEPT ![p] = "cr_put"]
          /\ UNCHANGED <<resp, hist>>
       \/ /\ Return(p, UploadFailed)
          /\ hist' = [hist EXCEPT ![p].faulted = TRUE, ![p].faultAt = pc[p]]
          /\ UNCHANGED S3
    /\ UNCHANGED <<Catalog, Accounts, GamingSystems, env, req, count>>

\* parseInt(productData.Price.toString()), handler.ts:621: the digits a number
\* or a string starts with, as a whole number; NaN when it starts with none
parseInt(price) ==
    IF price.kind \in {"integer", "fraction", "digits"} THEN Cents(price.n) ELSE NaN

\* handler.ts:616-630; req[p].id is productData.ID || randomUUID()
NewProduct(p) ==
    LET productData == req[p].body
    IN [NoItem EXCEPT
           !.ID = req[p].id,
           !.Name = productData.Name,
           !.Items = productData.Items,
           !.GamingSystemID = productData.GamingSystemID,
           !.Price = parseInt(productData.Price),
           !.Image = loc[p].imagePath,
           !.IsArchived = IF productData.IsArchived # None THEN productData.IsArchived
                          ELSE "false",
           !.IsFeatured = IF productData.IsFeatured # None THEN productData.IsFeatured
                          ELSE "false",
           !.CreatedAt = loc[p].timestamp,
           !.UpdatedAt = loc[p].timestamp]

\* handler.ts:632-646: the put conditioned on attribute_not_exists(ID); a
\* Price that is NaN is no attribute value, and the command throws
CrPut(p) ==
    /\ pc[p] = "cr_put"
    /\ \/ /\ NewProduct(p).Price # NaN
          /\ Catalog[req[p].id] # NoItem      \* ConditionalCheckFailedException
          /\ Return(p, response(409, [NoResp EXCEPT !.error = "Product already exists"]))
          /\ UNCHANGED <<Catalog, hist>>
       \/ /\ NewProduct(p).Price # NaN
          /\ Catalog[req[p].id] = NoItem
          /\ Catalog' = [Catalog EXCEPT ![req[p].id] = NewProduct(p)]
          /\ Return(p, response(201, [NoResp EXCEPT !.item = NewProduct(p)]))
          /\ hist' = HistAfter(p, hist[p], req[p].id, "created")
       \/ /\ Throw(p, "createProduct")
          /\ UNCHANGED Catalog
    /\ UNCHANGED <<Accounts, GamingSystems, S3, env, req, count>>

(***************************************************************************)
(* updateProduct, handler.ts:650-752                                       *)
(***************************************************************************)
\* handler.ts:667-677, 702-708: the lookup that precedes an image upload
UpGet(p) ==
    /\ pc[p] = "up_get"
    /\ \/ /\ Catalog[req[p].id] = NoItem
          /\ Return(p, NotFound)
          /\ UNCHANGED hist
       \/ /\ Catalog[req[p].id] # NoItem
          /\ loc' = [loc EXCEPT ![p].product = Catalog[req[p].id]]
          /\ pc' = [pc EXCEPT ![p] = "up_upload"]
          /\ UNCHANGED <<resp, hist>>
       \/ /\ Return(p, UploadFailed)
          /\ hist' = [hist EXCEPT ![p].faulted = TRUE, ![p].faultAt = pc[p]]
    /\ UNCHANGED <<Catalog, Accounts, GamingSystems, S3, env, req, count>>

\* handler.ts:679-708
UpUpload(p) ==
    /\ pc[p] = "up_upload"
    /\ \/ /\ S3' = PutObject(loc[p].product.GamingSystemID, req[p].id,
                             UploadEnvironment, req[p].body.imageBase64)
          /\ loc' = [loc EXCEPT ![p].imagePath =
                                   ImageKey(loc[p].product.GamingSystemID, req[p].id),
                                ![p].timestamp = now]
          /\ pc' = [pc EXCEPT ![p] = "up_update"]
          /\ UNCHANGED <<resp, hist>>
       \/ /\ Return(p, UploadFailed)
          /\ hist' = [hist EXCEPT ![p].faulted = TRUE, ![p].faultAt = pc[p]]
          /\ UNCHANGED S3
    /\ UNCHANGED <<Catalog, Accounts, GamingSystems, env, req, count>>

\* an updateData from which CreatedAt was not removed
UpdateDataKeepsCreatedAt(body, imagePath, timestamp) ==
    [body EXCEPT
        !.Image = IF body.imageBase64 # None THEN imagePath ELSE @,
        !.imageBase64 = None,
        !.ID = None,
        !.UpdatedAt = timestamp]

\* handler.ts:697-720: updateData when the update expression is built: the
\* uploaded path replaces Image and imageBase64 goes, ID and CreatedAt go,
\* UpdatedAt is the clock reading
UpdateData(body, imagePath, timestamp) ==
    [body EXCEPT
        !.Image = IF body.imageBase64 # None THEN imagePath ELSE @,
        !.imageBase64 = None,
        !.ID = None,
        !.CreatedAt = NoTime,
        !.UpdatedAt = timestamp]

\* handler.ts:722-731: the SET expression: every key of updateData replaces
\* the stored attribute; the others stay
Updated(item, updateData) ==
    [item EXCEPT
        !.Name = IF updateData.Name # None THEN updateData.Name ELSE @,
        !.GamingSystemID = IF updateData.GamingSystemID # None
                           THEN updateData.GamingSystemID ELSE @,
        !.Image = IF updateData.Image # None THEN updateData.Image ELSE @,
        !.Price = IF updateData.Price # NoPrice THEN updateData.Price ELSE @,
        !.Items = IF updateData.Items # NoItems THEN updateData.Items ELSE @,
        !.IsArchived = IF updateData.IsArchived # None THEN updateData.IsArchived ELSE @,
        !.IsFeatured = IF updateData.IsFeatured # None THEN updateData.IsFeatured ELSE @,
        !.Type = IF updateData.Type # None THEN updateData.Type ELSE @,
        !.Category = IF updateData.Category # None THEN updateData.Category ELSE @,
        !.Status = IF updateData.Status # None THEN updateData.Status ELSE @,
        !.CreatedAt = IF updateData.CreatedAt # NoTime THEN updateData.CreatedAt ELSE @,
        !.UpdatedAt = IF updateData.UpdatedAt # NoTime THEN updateData.UpdatedAt ELSE @]


\* an update without ConditionExpression: UpdateItem creates the record
UpUpdateUpserts(p) ==
    /\ pc[p] = "up_update"
    /\ \/ /\ LET old == IF Catalog[req[p].id] = NoItem
                        THEN [NoItem EXCEPT !.ID = req[p].id]
                        ELSE Catalog[req[p].id]
                 new == Updated(old, UpdateData(req[p].body, loc[p].imagePath,
                                                loc[p].timestamp))
             IN /\ Catalog' = [Catalog EXCEPT ![req[p].id] = new]
                /\ Return(p, response(200, [NoResp EXCEPT !.item = new]))
          /\ hist' = HistAfter(p, hist[p], req[p].id, "updated")
       \/ /\ Throw(p, "updateProduct")
          /\ UNCHANGED Catalog
    /\ UNCHANGED <<Accounts, GamingSystems, S3, env, req, count>>

\* handler.ts:733-751: the update conditioned on attribute_exists(ID)
UpUpdate(p) ==
    /\ pc[p] = "up_update"
    /\ \/ /\ Catalog[req[p].id] = NoItem      \* ConditionalCheckFailedException
          /\ Return(p, NotFound)
          /\ UNCHANGED <<Catalog, hist>>
       \/ /\ Catalog[req[p].id] # NoItem
          /\ LET new == Updated(Catalog[req[p].id],
                                UpdateData(req[p].body, loc[p].imagePath,
                                           loc[p].timestamp))
             IN /\ Catalog' = [Catalog EXCEPT ![req[p].id] = new]
                /\ Return(p, response(200, [NoResp EXCEPT !.item = new]))
          /\ hist' = HistAfter(p, hist[p], req[p].id, "updated")
       \/ /\ Throw(p, "updateProduct")
          /\ UNCHANGED Catalog
    /\ UNCHANGED <<Accounts, GamingSystems, S3, env, req, count>>

(***************************************************************************)
(* handleImageUpload, handler.ts:221-294                                   *)
(***************************************************************************)
\* handler.ts:252-265, 278
ImgUpload(p) ==
    /\ pc[p] = "img_upload"
    /\ \/ /\ S3' = PutObject(req[p].body.GamingSystemID, req[p].id,
                             UploadEnvironment, req[p].body.imageBase64)
          /\ loc' = [loc EXCEPT ![p].imagePath =
                                   ImageKey(req[p].body.GamingSystemID, req[p].id),
                                ![p].timestamp = now]
          /\ pc' = [pc EXCEPT ![p] = "img_update"]
          /\ UNCHANGED <<resp, hist>>
       \/ /\ Throw(p, "handleImageUpload")
          /\ UNCHANGED S3
    /\ UNCHANGED <<Catalog, Accounts, GamingSystems, env, req, count>>

\* handler.ts:267-293: UpdateItem without ConditionExpression writes the two
\* attributes into the record of the key, which it creates when there is none
ImgUpdate(p) ==
    /\ pc[p] = "img_update"
    /\ \/ /\ LET old == IF Catalog[req[p].id] = NoItem
                        THEN [NoItem EXCEPT !.ID = req[p].id]
                        ELSE Catalog[req[p].id]
                 new == [old EXCEPT !.Image = loc[p].imagePath,
                                    !.UpdatedAt = loc[p].timestamp]
             IN /\ Catalog' = [Catalog EXCEPT ![req[p].id] = new]
                /\ Return(p, response(200, [NoResp EXCEPT !.item = new]))
          /\ hist' = HistAfter(p, hist[p], req[p].id, "attached")
       \/ /\ Throw(p, "handleImageUpload")
          /\ UNCHANGED Catalog
    /\ UNCHANGED <<Accounts, GamingSystems, S3, env, req, count>>

(***************************************************************************)
(* handler, handler.ts:97-218: authentication and the routes               *)
(***************************************************************************)
Body(name, gs, image) ==
    [NoBody EXCEPT !.Name = name, !.GamingSystemID = gs, !.imageBase64 = image]

\* the body with a Price and one item that needs no ID
Priced(body) ==
    [body EXCEPT !.Price = Cents(100), !.Items = Array(<< Item("Classes", None) >>)]

CreateBodies ==
    { Priced(Body("n1", "S", None)), Priced(Body("n1", "S", "img1")),
      Priced(Body("n2", "S", "img2")), Priced(Body("n2", "T", None)) }

UpdateBodies ==
    { Body("n3", None, None), Body(None, "T", None), Body(None, None, "img1") }

\* bodies that carry ID, CreatedAt and UpdatedAt, or Image beside imageBase64
StampedBodies ==
    { [Body("n4", None, None) EXCEPT !.ID = "Y", !.CreatedAt = 7, !.UpdatedAt = 7],
      [Body(None, None, "img1") EXCEPT !.Image = "own.jpg"] }

UploadBodies == { Body(None, "S", "img2") }

\* the methods the switch of handler.ts:161 has a case for
Methods == {"GET", "POST", "PUT", "PATCH", "DELETE"}

Credentials == {"admin", "user", "anonymous"}

\* services/authService.ts (not among the sources): the result for credentials
checkAuthentication(auth) ==
    CASE auth = "admin" -> [statusCode |-> 200, isAdmin |-> TRUE]
      [] auth = "user" -> [statusCode |-> 200, isAdmin |-> FALSE]
      [] OTHER -> [statusCode |-> 401, isAdmin |-> FALSE]

\* a 400 with its error text
BadRequest(error) == response(400, [NoResp EXCEPT !.error = error])

\* the test of handler.ts:563: the IDs that are UUIDs
UUIDs == {"123e4567-e89b-12d3-a456-426614174000"}

\* handler.ts:541-567: what the loop over Items answers from item n on
RECURSIVE ValidateItems(_, _)
ValidateItems(items, n) ==
    IF n > Len(items) THEN NoResp
    ELSE LET item == items[n]
         IN IF item.Type \notin {"Maps", "Classes", "Spells", "Races", "Modules", "Shop"}
            THEN BadRequest("Invalid item Type")
            ELSE IF item.Type \in {"Maps", "Modules", "Shop"} /\ item.ID = None
            THEN BadRequest("Missing ID for item")
            ELSE IF item.ID # None /\ item.ID \notin UUIDs
            THEN BadRequest("Invalid ID format")
            ELSE ValidateItems(items, n + 1)

\* a validation that tests the required fields only
ValidateFieldsOnly(productData) ==
    IF \/ productData.Name = None \/ productData.Price = NoPrice
       \/ productData.GamingSystemID = None \/ productData.Items = NoItems
    THEN BadRequest("Missing required fields")
    ELSE NoResp

\* handler.ts:523-567: the validation of createProduct
Validate(productData) ==
    IF \/ productData.Name = None \/ productData.Price = NoPrice
       \/ productData.GamingSystemID = None \/ productData.Items = NoItems
    THEN BadRequest("Missing required fields")
    ELSE IF productData.Items.kind # "array" \/ productData.Items.list = <<>>
    THEN BadRequest("Items must be a non-empty array")
    ELSE ValidateItems(productData.Items.list, 1)

\* handler.ts:231-245: the validation of handleImageUpload
ValidateUpload(r) ==
    IF r.id = None THEN BadRequest("productId is required")
    ELSE IF r.body.GamingSystemID = None THEN BadRequest("gamingSystemId is required")
    ELSE IF r.body.imageBase64 = None THEN BadRequest("imageBase64 is required")
    ELSE NoResp

\* handler.ts:161-180: the list a GET without product ID is routed to
ListOperation(r) ==
    IF PathIncludes(r.path, PublicSystem) THEN "getProductsByGamingSystem"
    ELSE IF r.query.featured = "true" THEN "getFeaturedProducts"
    ELSE IF r.query.gamingSystemId # None THEN "getProductsByGamingSystem"
    ELSE IF r.query.type # None THEN "getProductsByType"
    ELSE "getAllProducts"

\* handler.ts:343-345: a lastKey that is no encoded key throws before the query
ValidateList(r) ==
    IF ExclusiveStartKey(r.query).ID = Unknown THEN handleError(ListOperation(r))
    ELSE NoResp

\* handler.ts:106-214 and the code of the operation routed to that precedes
\* its first await: the response given without any storage call, NoResp when
\* the request goes on to one
Refusal(r) ==
    LET method == r.method
        isAdminRoute == PathIncludes(r.path, AdminShop)
        authResult == checkAuthentication(r.auth)
    IN IF method = "OPTIONS" THEN response(200, NoResp)
       ELSE IF r.malformed THEN handleError("handler")
       ELSE IF method = "GET" /\ PathIncludes(r.path, PublicProduct)
       THEN IF r.id = None THEN BadRequest("Product ID is required") ELSE NoResp
       ELSE IF method = "GET" /\ PathIncludes(r.path, PublicSystem)
       THEN IF r.systemId = None THEN BadRequest("Gaming System ID is required")
            ELSE ValidateList(r)
       ELSE IF isAdminRoute /\ authResult.statusCode # 200
       THEN response(authResult.statusCode, [NoResp EXCEPT !.error = "Unauthorized"])
       ELSE IF isAdminRoute /\ ~authResult.isAdmin
       THEN response(403, [NoResp EXCEPT !.error = "Administrator access required"])
       ELSE IF method = "GET" /\ r.id = None THEN ValidateList(r)
       ELSE IF method = "POST" /\ PathIncludes(r.path, UploadImage)
       THEN IF ~isAdminRoute
            THEN response(403, [NoResp EXCEPT
                     !.error = "Image uploads require administrator access"])
            ELSE ValidateUpload(r)
       ELSE IF method = "POST" THEN Validate(r.body)
       ELSE IF method \in {"PUT", "PATCH", "DELETE"} /\ r.id = None
       THEN BadRequest("Product ID is required")
       ELSE IF method \notin Methods
       THEN response(405, [NoResp EXCEPT !.error = "Method not allowed"])
       ELSE NoResp

\* handler.ts:106-143: whether the request gets as far as checkAuthentication
ChecksAuthentication(r) ==
    /\ r.method # "OPTIONS"
    /\ ~r.malformed
    /\ ~(r.method = "GET" /\ PathIncludes(r.path, PublicProduct))
    /\ ~(r.method = "GET" /\ PathIncludes(r.path, PublicSystem))
    /\ PathIncludes(r.path, AdminShop)

\* handler.ts:161-214 and the first await of the operation routed to
Route(r) ==
    LET method == r.method
        path == r.path
        body == r.body
    IN
    CASE method = "GET" ->
            IF PathIncludes(path, PublicProduct) THEN "get_get"
            ELSE IF PathIncludes(path, PublicSystem) THEN "gs_query"
            ELSE IF r.id # None THEN "get_get"
            ELSE IF r.query.featured = "true" THEN "featured_scan"
            ELSE IF r.query.gamingSystemId # None THEN "gs_query"
            ELSE IF r.query.type # None THEN "type_scan"
            ELSE "all_scan"
      [] method = "POST" ->
            IF PathIncludes(path, UploadImage) THEN "img_upload"
            ELSE IF body.imageBase64 # None THEN "cr_upload" ELSE "cr_put"
      [] method \in {"PUT", "PATCH"} ->
            IF body.imageBase64 # None THEN "up_get" ELSE "up_update"
      [] method = "DELETE" -> "del_get"
      [] OTHER -> "done"

\* handler.ts:570 and 720: the operations that read the clock before their
\* first storage call
ReadsClock(pcAfter) == pcAfter \in {"cr_upload", "cr_put", "up_update"}

\* the bodies a request of that method and path may carry
Bodies(method, path) ==
    CASE method = "POST" /\ PathIncludes(path, UploadImage) -> UploadBodies
      [] method = "POST" -> CreateBodies
      [] method \in {"PUT", "PATCH"} -> UpdateBodies \cup StampedBodies
      [] OTHER -> {NoBody}

\* the methods of requests: those of the switch, the preflight, and one more
EveryMethod == Methods \cup {"OPTIONS", "HEAD"}

\* the request whose event.body is text that JSON.parse rejects
Unparseable(r) == [r EXCEPT !.malformed = TRUE, !.body = NoBody]

\* the requests of the given methods, paths and credentials
Requests(methods, paths, auths) ==
    UNION { { [NoReq EXCEPT !.method = m, !.id = i, !.path = t, !.auth = a, !.body = b] :
                  i \in RequestIds, a \in auths, b \in Bodies(m, t) } :
            m \in methods, t \in paths }

(***************************************************************************)
(* index.js: the handler of the JavaScript variant and its operations, on  *)
(* the table TABLE_NAME names.  Requests carry no minPrice or maxPrice.    *)
(***************************************************************************)
\* CORS_HEADERS, index.js:11-16
index_CORS_HEADERS ==
    [CORS_HEADERS EXCEPT !.AllowMethods = "GET,POST,PUT,DELETE,OPTIONS"]

\* response(statusCode, body), index.js:19-23
index_response(statusCode, body) ==
    [body EXCEPT !.statusCode = statusCode, !.headers = index_CORS_HEADERS]

\* handleError(error, operation), index.js:26-33
index_handleError(operation) ==
    index_response(500, [NoResp EXCEPT !.error = "Internal Server Error",
                                       !.message = ErrorMessage,
                                       !.operation = operation])

\* index.js:53-61: the list a GET without product ID is routed to
index_ListOperation(r) ==
    IF r.query.category # None THEN "getProductsByCategory"
    ELSE IF r.query.status # None THEN "getProductsByStatus"
    ELSE "getAllProducts"

\* index.js:39-87 and the code of the operation routed to that precedes its
\* await: the response given without any storage call, NoResp when the
\* request goes on to one.  The body is parsed first.
index_Refusal(r) ==
    IF r.malformed THEN index_handleError("handler")
    ELSE IF r.method = "OPTIONS" THEN index_response(200, NoResp)
    ELSE IF r.method = "GET" /\ r.id = None
    THEN IF ExclusiveStartKey(r.query).ID = Unknown
         THEN index_handleError(index_ListOperation(r)) ELSE NoResp
    ELSE IF r.method = "POST"
    THEN IF \/ r.body.Name = None \/ r.body.Category = None
            \/ r.body.Price \in {NoPrice, Cents(0)}
         THEN index_response(400, [NoResp EXCEPT !.error = "Missing required fields"])
         ELSE NoResp
    ELSE IF r.method \in {"PUT", "DELETE"} /\ r.id = None
    THEN index_response(400, [NoResp EXCEPT !.error = "Product ID is required"])
    ELSE IF r.method \notin {"GET", "POST", "PUT", "DELETE"}
    THEN index_response(405, [NoResp EXCEPT !.error = "Method not allowed"])
    ELSE NoResp

\* index.js:52-82 and the await of the operation routed to
index_Route(r) ==
    CASE r.method = "GET" ->
            IF r.id # None THEN "ix_get"
            ELSE IF r.query.category # None THEN "ix_category"
            ELSE IF r.query.status # None THEN "ix_status"
            ELSE "ix_all"
      [] r.method = "POST" -> "ix_put"
      [] r.method = "PUT" -> "ix_update"
      [] r.method = "DELETE" -> "ix_delete"
      [] OTHER -> "done"

\* exports.handler, index.js:36-87: request r arrives at invocation p
index_handler(p, r) ==
    /\ pc[p] = "idle"
    /\ req' = [req EXCEPT ![p] = r]
    /\ hist' = [hist EXCEPT ![p] =
                   [NoHist EXCEPT !.pre = IF r.id \in ProductIds THEN Catalog[r.id]
                                          ELSE NoItem,
                                  !.seq = arrivals + 1,
                                  !.at = now,
                                  !.prior = {hist[q].seq : q \in {d \in Procs : pc[d] = "done"}}]]
    /\ IF index_Refusal(r) # NoResp
       THEN Return(p, index_Refusal(r))
       ELSE /\ pc' = [pc EXCEPT ![p] = index_Route(r)]
            /\ loc' = [loc EXCEPT ![p].timestamp =
                          IF index_Route(r) \in {"ix_put", "ix_update"} THEN now
                          ELSE NoTime]
            /\ UNCHANGED resp
    /\ arrivals < MaxRequests
    /\ arrivals' = arrivals + 1
    /\ UNCHANGED <<data, ownerWrites, now>>

\* a storage call of p throws: the catch block of the operation answers
index_Throw(p, operation) ==
    /\ Return(p, index_handleError(operation))
    /\ hist' = [hist EXCEPT ![p].faulted = TRUE, ![p].faultAt = pc[p]]

\* getProduct, index.js:90-107
index_getProduct(p) ==
    /\ pc[p] = "ix_get"
    /\ \/ /\ Return(p, IF Catalog[req[p].id] = NoItem
                       THEN index_response(404, [NoResp EXCEPT !.error = "Product not found"])
                       ELSE index_response(200, [NoResp EXCEPT !.item = Catalog[req[p].id]]))
          /\ UNCHANGED hist
       \/ index_Throw(p, "getProduct")
    /\ UNCHANGED <<Catalog, Accounts, GamingSystems, S3, env, req, count>>

\* one Scan or Query over the records in order, answered as a list
index_List(p, order, operation) ==
    \/ \E k \in 1..PageLimit(req[p].query), more \in BOOLEAN :
          LET start == StartOf(order, ExclusiveStartKey(req[p].query))
              evaluated == PageItems(order, start, k)
              end == PageKey(order, start, k, more)
              body == ListBody(evaluated, KeyAt(order, end, None))
          IN /\ Return(p, index_response(200, body))
             /\ hist' = [hist EXCEPT ![p].evaluated = evaluated,
                                      ![p].pageKey = KeyAt(order, end, None)]
    \/ index_Throw(p, operation)

\* getAllProducts, index.js:110-140
index_getAllProducts(p) ==
    /\ pc[p] = "ix_all"
    /\ index_List(p, TableOrder, "getAllProducts")
    /\ UNCHANGED <<Catalog, Accounts, GamingSystems, S3, env, req, count>>

\* getProductsByCategory, index.js:143-180 (Category-CreatedAt-index)
index_getProductsByCategory(p) ==
    /\ pc[p] = "ix_category"
    /\ index_List(p, SelectSeq(TableOrder,
                               LAMBDA i : Catalog[i].Category = req[p].query.category),
                  "getProductsByCategory")
    /\ UNCHANGED <<Catalog, Accounts, GamingSystems, S3, env, req, count>>

\* getProductsByStatus, index.js:183-239 (Status-Price-index)
index_getProductsByStatus(p) ==
    /\ pc[p] = "ix_status"
    /\ index_List(p, SelectSeq(TableOrder,
                               LAMBDA i : Catalog[i].Status = req[p].query.status),
                  "getProductsByStatus")
    /\ UNCHANGED <<Catalog, Accounts, GamingSystems, S3, env, req, count>>

\* parseFloat(productData.Price), index.js:260
parseFloat(price) ==
    CASE price.kind \in {"integer", "digits"} -> Cents(price.n)
      [] price.kind = "fraction" -> price
      [] OTHER -> NaN

\* index.js:256-268: the record createProduct puts (Description, ImageURL,
\* Stock and Tags left out); the generated ID is the request's id
index_NewProduct(p) ==
    [NoItem EXCEPT
        !.ID = req[p].id,
        !.Name = req[p].body.Name,
        !.Category = req[p].body.Category,
        !.Price = parseFloat(req[p].body.Price),
        !.Status = IF req[p].body.Status # None THEN req[p].body.Status ELSE "active",
        !.CreatedAt = loc[p].timestamp,
        !.UpdatedAt = loc[p].timestamp]

\* createProduct, index.js:242-286: a Price that is NaN is no attribute value
index_createProduct(p) ==
    /\ pc[p] = "ix_put"
    /\ \/ /\ index_NewProduct(p).Price # NaN
          /\ Catalog[req[p].id] # NoItem
          /\ Return(p, index_response(409, [NoResp EXCEPT !.error = "Product already exists"]))
          /\ UNCHANGED <<Catalog, hist>>
       \/ /\ index_NewProduct(p).Price # NaN
          /\ Catalog[req[p].id] = NoItem
          /\ Catalog' = [Catalog EXCEPT ![req[p].id] = index_NewProduct(p)]
          /\ Return(p, index_response(201, [NoResp EXCEPT !.item = index_NewProduct(p)]))
          /\ hist' = HistAfter(p, hist[p], req[p].id, "created")
       \/ /\ index_Throw(p, "createProduct")
          /\ UNCHANGED Catalog
    /\ UNCHANGED <<Accounts, GamingSystems, S3, env, req, count>>

\* updateProduct, index.js:289-328
index_updateProduct(p) ==
    /\ pc[p] = "ix_update"
    /\ \/ /\ Catalog[req[p].id] = NoItem
          /\ Return(p, index_response(404, [NoResp EXCEPT !.error = "Product not found"]))
          /\ UNCHANGED <<Catalog, hist>>
       \/ /\ Catalog[req[p].id] # NoItem
          /\ LET updateData == [req[p].body EXCEPT !.ID = None, !.CreatedAt = NoTime,
                                                   !.UpdatedAt = loc[p].timestamp]
                 new == Updated(Catalog[req[p].id], updateData)
             IN /\ Catalog' = [Catalog EXCEPT ![req[p].id] = new]
                /\ Return(p, index_response(200, [NoResp EXCEPT !.item = new]))
          /\ hist' = HistAfter(p, hist[p], req[p].id, "updated")
       \/ /\ index_Throw(p, "updateProduct")
          /\ UNCHANGED Catalog
    /\ UNCHANGED <<Accounts, GamingSystems, S3, env, req, count>>

\* deleteProduct, index.js:331-356
index_deleteProduct(p) ==
    /\ pc[p] = "ix_delete"
    /\ \/ /\ Catalog[req[p].id] = NoItem
          /\ Return(p, index_response(404, [NoResp EXCEPT !.error = "Product not found"]))
          /\ UNCHANGED <<Catalog, hist>>
       \/ /\ Catalog[req[p].id] # NoItem
          /\ Catalog' = [Catalog EXCEPT ![req[p].id] = NoItem]
          /\ Return(p, index_response(200, [NoResp EXCEPT !.item = Catalog[req[p].id]]))
          /\ hist' = HistAfter(p, hist[p], req[p].id, "deleted")
       \/ /\ index_Throw(p, "deleteProduct")
          /\ UNCHANGED Catalog
    /\ UNCHANGED <<Accounts, GamingSystems, S3, env, req, count>>

\* the request that follows the lastKey of the answer q holds
FollowUp(q) == [req[q] EXCEPT !.query.lastKey = resp[q].lastKey]

\* the IDs on the pages the caller of r got so far, when r follows a lastKey
Walked(r) ==
    LET before == {q \in Procs : /\ pc[q] = "done" /\ resp[q].lastKey # <<>>
                                  /\ r = FollowUp(q)}
    IN IF before = {} THEN <<>>
       ELSE LET q == CHOOSE q \in before : TRUE
            IN hist[q].walked
               \o [n \in 1..Len(resp[q].products) |-> resp[q].products[n].ID]

\* handler.ts:97-218: request r arrives at invocation p
handler(p, r) ==
    /\ pc[p] = "idle"
    /\ LET refusal == Refusal(r)
           pcAfter == Route(r)
       IN /\ req' = [req EXCEPT ![p] = r]
          /\ hist' = [hist EXCEPT ![p] =
                         [NoHist EXCEPT !.pre = IF r.id \in ProductIds THEN Catalog[r.id]
                                                ELSE NoItem,
                                        !.seq = arrivals + 1,
                                        !.at = now,
                                        !.authChecked = ChecksAuthentication(r),
                                        !.walked = Walked(r),
                                        !.prior = {hist[q].seq : q \in {d \in Procs : pc[d] = "done"}}]]
          /\ IF refusal # NoResp
             THEN Return(p, refusal)
             ELSE /\ pc' = [pc EXCEPT ![p] = pcAfter]
                  /\ loc' = [loc EXCEPT ![p].timestamp =
                                IF ReadsClock(pcAfter) THEN now ELSE NoTime]
                  /\ UNCHANGED resp
    /\ arrivals < MaxRequests
    /\ arrivals' = arrivals + 1
    /\ UNCHANGED <<data, ownerWrites, now>>

\* the invocation ends; nothing of it is kept (handler.ts holds no state
\* between invocations)
Finish(p) ==
    /\ pc[p] = "done"
    /\ pc' = [pc EXCEPT ![p] = "idle"]
    /\ req' = [req EXCEPT ![p] = NoReq]
    /\ resp' = [resp EXCEPT ![p] = NoResp]
    /\ hist' = [hist EXCEPT ![p] = NoHist]
    /\ UNCHANGED <<data, loc, count>>

\* time passes
Tick ==
    /\ now < MaxClock
    /\ now' = now + 1
    /\ UNCHANGED <<data, pc, req, loc, resp, hist, arrivals, ownerWrites>>

(***************************************************************************)
(* The owners of the Accounts and GamingSystems tables (other services)    *)
(***************************************************************************)
\* whether the scans of request q are past account a, past system s
AccountPassed(q, a) ==
    \/ pc[q] \in {"del_scanSystems", "del_delete"}
    \/ pc[q] = "del_scanAccounts" /\ Position(AccountOrder, a) <= loc[q].lastEvaluatedKey

SystemPassed(q, s) ==
    \/ pc[q] = "del_delete"
    \/ pc[q] = "del_scanSystems" /\ Position(SystemOrder, s) <= loc[q].gsLastEvaluatedKey

\* hist after an owner's write: each open request notes whether the write came
\* before its scan reached the record ("env"), after that and before its
\* conditioned delete ("late"), or after its delete or its answer ("after")
Disturbed(Passed(_)) ==
    [q \in Procs |->
        IF pc[q] = "idle" THEN hist[q]
        ELSE [hist[q] EXCEPT !.intr = @ \cup
                 {IF pc[q] \in {"del_list", "del_objects", "done"} THEN "after"
                  ELSE IF Passed(q) THEN "late" ELSE "env"}]]

SetAccess(a, m) ==
    /\ ownerWrites < MaxOwnerWrites
    /\ ownerWrites' = ownerWrites + 1
    /\ Accounts[a] # m
    /\ Accounts' = [Accounts EXCEPT ![a] = m]
    /\ hist' = Disturbed(LAMBDA q : AccountPassed(q, a))
    /\ UNCHANGED <<Catalog, GamingSystems, S3, env, pc, req, loc, resp, arrivals, now>>

SetRequiredShopItem(s, v) ==
    /\ ownerWrites < MaxOwnerWrites
    /\ ownerWrites' = ownerWrites + 1
    /\ GamingSystems[s] # v
    /\ GamingSystems' = [GamingSystems EXCEPT ![s] = v]
    /\ hist' = Disturbed(LAMBDA q : SystemPassed(q, s))
    /\ UNCHANGED <<Catalog, Accounts, S3, env, pc, req, loc, resp, arrivals, now>>

(***************************************************************************)
(* Specification                                                           *)
(***************************************************************************)
EnvConfigs == { [STAGE |-> "dev", ENVIRONMENT |-> None] }

\* the states a deployment starts from, the Access fields drawn from accessMaps
Start(accessMaps) ==
    /\ Catalog \in {[i \in ProductIds |-> NoItem],
                    [i \in ProductIds |-> IF i = "X" THEN Stamped(Product("X", "n0", "S", ""), 0)
                                          ELSE NoItem]}
    /\ Accounts \in [AccountIds -> accessMaps]
    /\ GamingSystems \in [SystemIds -> {None} \cup ProductIds]
    /\ S3 \in {{}, {[bucket |-> Bucket("dev"), gs |-> "S", id |-> "X", body |-> "img1"]}}
    /\ Catalog["X"] = NoItem => S3 = {}
    /\ env \in EnvConfigs
    /\ pc = [p \in Procs |-> "idle"]
    /\ req = [p \in Procs |-> NoReq]
    /\ loc = [p \in Procs |-> NoLoc]
    /\ resp = [p \in Procs |-> NoResp]
    /\ hist = [p \in Procs |-> NoHist]
    /\ arrivals = 0
    /\ ownerWrites = 0
    /\ now = 0

Init == Start(AccessMaps)

\* the requests of administrators on the documented admin route of the method
Documented(methods) ==
    { r \in Requests(methods \ {"POST"}, {AdminShopId}, {"admin"})
             \cup Requests(methods \cap {"POST"}, {AdminShop}, {"admin"}) :
        r.body \notin StampedBodies }

LookupsAndDeletes == Documented({"GET", "DELETE"})
DocumentedRequests == Documented(Methods)

\* every other invocation has ended
Quiet(p) == \A q \in Procs \ {p} : pc[q] = "idle"

\* no other request is open
Alone(p) == \A q \in Procs \ {p} : pc[q] \in {"idle", "done"}

\* invocations are interchangeable: a request goes to the first idle one
Slot(p) == \A q \in Procs : q < p => pc[q] # "idle"

\* Spec: DELETE and GET requests arrive one after the other (a request may still
\* find the answer of the previous one) over every content of the Accounts and
\* GamingSystems tables; nobody writes these two tables meanwhile.
Next ==
    \/ \E p \in Procs, r \in LookupsAndDeletes :
          Slot(p) /\ Alone(p) /\ handler(p, r)
    \/ \E p \in Procs : getProduct(p)
    \/ \E p \in Procs : DelGet(p)
    \/ \E p \in Procs : DelScanAccounts(p)
    \/ \E p \in Procs : DelScanSystems(p)
    \/ \E p \in Procs : DelDelete(p)
    \/ \E p \in Procs : DelListFolder(p)
    \/ \E p \in Procs : DelObjects(p)
    \/ \E p \in Procs : Finish(p)

Spec == Init /\ [][Next]_vars

\* SpecRace: two invocations run concurrently on the same catalog item; the
\* Accounts and GamingSystems tables hold no reference to it and stay as they are.
InitRace ==
    /\ Init
    /\ Accounts = [a \in AccountIds |-> IF a = "A" THEN [S |-> Missing, T |-> Missing]
                                        ELSE [S |-> List(<<"Y">>), T |-> Missing]]
    /\ GamingSystems = [s \in SystemIds |-> IF s = "S" THEN None ELSE "Y"]

NextRace ==
    \/ \E p \in Procs, r \in DocumentedRequests : Slot(p) /\ handler(p, r)
    \/ \E p \in Procs : getProduct(p)
    \/ \E p \in Procs : DelGet(p)
    \/ \E p \in Procs : DelScanAccounts(p)
    \/ \E p \in Procs : DelScanSystems(p)
    \/ \E p \in Procs : DelDelete(p)
    \/ \E p \in Procs : DelListFolder(p)
    \/ \E p \in Procs : DelObjects(p)
    \/ \E p \in Procs : CrUpload(p)
    \/ \E p \in Procs : CrPut(p)
    \/ \E p \in Procs : UpGet(p)
    \/ \E p \in Procs : UpUpload(p)
    \/ \E p \in Procs : UpUpdate(p)
    \/ \E p \in Procs : Finish(p)

SpecRace == InitRace /\ [][NextRace]_vars

\* SpecRoutes: requests of every method, path and caller, with one body for
\* each operation or with a body that is not JSON, arrive one at a time, each after the previous invocation has
\* ended; the Accounts and GamingSystems tables hold no reference to the item.
RouteRequests ==
    LET parsed == { r \in Requests(EveryMethod, Paths, Credentials) :
                      r.body \in {NoBody, Priced(Body("n1", "S", "img1")), Body("n3", None, None),
                                   Body(None, None, "img1")} \cup UploadBodies }
    IN parsed \cup { Unparseable(r) : r \in parsed }

NextRoutes ==
    \/ \E p \in Procs, r \in RouteRequests :
          Slot(p) /\ Quiet(p) /\ handler(p, r)
    \/ \E p \in Procs : getProduct(p)
    \/ \E p \in Procs : DelGet(p)
    \/ \E p \in Procs : DelScanAccounts(p)
    \/ \E p \in Procs : DelScanSystems(p)
    \/ \E p \in Procs : DelDelete(p)
    \/ \E p \in Procs : DelListFolder(p)
    \/ \E p \in Procs : DelObjects(p)
    \/ \E p \in Procs : CrUpload(p)
    \/ \E p \in Procs : CrPut(p)
    \/ \E p \in Procs : UpGet(p)
    \/ \E p \in Procs : UpUpload(p)
    \/ \E p \in Procs : UpUpdate(p)
    \/ \E p \in Procs : ImgUpload(p)
    \/ \E p \in Procs : ImgUpdate(p)
    \/ \E p \in Procs : Finish(p)

SpecRoutes == InitRace /\ [][NextRoutes]_vars

\* SpecClock: the documented requests of administrators, image attach and
\* bodies with ID and timestamps included, arrive one at a time, each after the
\* previous invocation has ended, while time passes.
ClockRequests ==
    Requests({"POST"}, {AdminShop, AdminShop \o UploadImage}, {"admin"})
    \cup Requests({"GET", "PUT", "PATCH", "DELETE"}, {AdminShopId}, {"admin"})

NextClock ==
    \/ \E p \in Procs, r \in ClockRequests : Slot(p) /\ Quiet(p) /\ handler(p, r)
    \/ \E p \in Procs : getProduct(p)
    \/ \E p \in Procs : DelGet(p)
    \/ \E p \in Procs : DelScanAccounts(p)
    \/ \E p \in Procs : DelScanSystems(p)
    \/ \E p \in Procs : DelDelete(p)
    \/ \E p \in Procs : DelListFolder(p)
    \/ \E p \in Procs : DelObjects(p)
    \/ \E p \in Procs : CrUpload(p)
    \/ \E p \in Procs : CrPut(p)
    \/ \E p \in Procs : UpGet(p)
    \/ \E p \in Procs : UpUpload(p)
    \/ \E p \in Procs : UpUpdate(p)
    \/ \E p \in Procs : ImgUpload(p)
    \/ \E p \in Procs : ImgUpdate(p)
    \/ \E p \in Procs : Finish(p)
    \/ Tick

SpecClock == InitRace /\ [][NextClock]_vars

\* SpecClockRace: as SpecClock, the invocations running concurrently.
NextClockRace ==
    \/ \E p \in Procs, r \in ClockRequests : Slot(p) /\ handler(p, r)
    \/ \E p \in Procs : getProduct(p)
    \/ \E p \in Procs : DelGet(p)
    \/ \E p \in Procs : DelScanAccounts(p)
    \/ \E p \in Procs : DelScanSystems(p)
    \/ \E p \in Procs : DelDelete(p)
    \/ \E p \in Procs : DelListFolder(p)
    \/ \E p \in Procs : DelObjects(p)
    \/ \E p \in Procs : CrUpload(p)
    \/ \E p \in Procs : CrPut(p)
    \/ \E p \in Procs : UpGet(p)
    \/ \E p \in Procs : UpUpload(p)
    \/ \E p \in Procs : UpUpdate(p)
    \/ \E p \in Procs : ImgUpload(p)
    \/ \E p \in Procs : ImgUpdate(p)
    \/ \E p \in Procs : Finish(p)
    \/ Tick

SpecClockRace == InitRace /\ [][NextClockRace]_vars

\* SpecMalformed: as Spec, over an existing item and Accounts records whose
\* Access is not a map of lists.
InitMalformed ==
    /\ Start(MalformedAccess \cup {[S |-> List(<<"X">>), T |-> Missing]})
    /\ Catalog["X"] # NoItem
    /\ GamingSystems = [s \in SystemIds |-> None]

SpecMalformed == InitMalformed /\ [][Next]_vars

\* SpecOwners: DELETE requests arrive one at a time, each after the previous
\* invocation has ended, for one catalog item nobody refers to at first, while
\* the owners of the Accounts and GamingSystems tables grant and withdraw
\* references to it at any moment.
InitOwners ==
    /\ Init
    /\ Catalog["X"] # NoItem
    /\ S3 # {}
    /\ Accounts = [a \in AccountIds |-> NoAccess]
    /\ GamingSystems = [s \in SystemIds |-> None]

Deletes == Documented({"DELETE"})

NextOwners ==
    \/ \E p \in Procs, r \in Deletes : Slot(p) /\ Quiet(p) /\ handler(p, r)
    \/ \E p \in Procs : DelGet(p)
    \/ \E p \in Procs : DelScanAccounts(p)
    \/ \E p \in Procs : DelScanSystems(p)
    \/ \E p \in Procs : DelDelete(p)
    \/ \E p \in Procs : DelListFolder(p)
    \/ \E p \in Procs : DelObjects(p)
    \/ \E p \in Procs : Finish(p)
    \/ \E a \in AccountIds, m \in AccessMaps : SetAccess(a, m)
    \/ \E s \in SystemIds, v \in {None} \cup ProductIds : SetRequiredShopItem(s, v)

SpecOwners == InitOwners /\ [][NextOwners]_vars

\* SpecLists: callers list the products, on the public and the admin routes, by
\* every list the GET router selects, and follow the lastKey of the answers;
\* the Shop table holds one or two products of system S, archived or not, one
\* of them perhaps the product named RealmForge Essentials, and nobody writes.
Listed(id, name, isArchived) ==
    [Product(id, name, "S", "") EXCEPT !.IsArchived = isArchived,
                                        !.IsFeatured = "true", !.Type = "Maps"]

InitLists ==
    /\ Accounts = [a \in AccountIds |-> NoAccess]
    /\ GamingSystems = [s \in SystemIds |-> None]
    /\ S3 = {}
    /\ env \in EnvConfigs
    /\ pc = [p \in Procs |-> "idle"]
    /\ req = [p \in Procs |-> NoReq]
    /\ loc = [p \in Procs |-> NoLoc]
    /\ resp = [p \in Procs |-> NoResp]
    /\ hist = [p \in Procs |-> NoHist]
    /\ arrivals = 0
    /\ ownerWrites = 0
    /\ now = 0
    /\ Catalog \in
          { [i \in ProductIds |-> IF i = "X" THEN x ELSE y] :
              x \in { Listed("X", "n0", a) : a \in {"true", "false"} },
              y \in {NoItem} \cup { Listed("Y", n, a) : n \in {"n1", EssentialsName},
                                                        a \in {"true", "false"} } }

\* the first requests of the lists: every route, every list, includeArchived
\* absent, true and false, with and without limit and source
ListRequests ==
    LET routes == { [NoReq EXCEPT !.method = "GET", !.path = <<"shop">>,
                                  !.auth = "anonymous"],
                    [NoReq EXCEPT !.method = "GET", !.path = AdminShop,
                                  !.auth = "admin"],
                    [NoReq EXCEPT !.method = "GET", !.path = PublicSystem \o <<"{id}">>,
                                  !.auth = "anonymous", !.systemId = "S"] }
        lists == { NoQuery,
                   [NoQuery EXCEPT !.featured = "true"],
                   [NoQuery EXCEPT !.gamingSystemId = "S"],
                   [NoQuery EXCEPT !.gamingSystemId = "S", !.source = "realm-create"],
                   [NoQuery EXCEPT !.source = "realm-create"],
                   [NoQuery EXCEPT !.type = "Maps"] }
    IN { [r EXCEPT !.query = [q EXCEPT !.includeArchived = a, !.limit = n]] :
            r \in routes, q \in lists, a \in {None, "true", "false"}, n \in {0, 1} }

NextLists ==
    \/ \E p \in Procs, r \in ListRequests : Slot(p) /\ Quiet(p) /\ handler(p, r)
    \/ \E p, q \in Procs :
          /\ pc[q] = "done" /\ resp[q].lastKey # <<>>
          /\ Slot(p) /\ Alone(p) /\ handler(p, FollowUp(q))
    \/ \E p \in Procs : getAllProducts(p)
    \/ \E p \in Procs : getProductsByType(p)
    \/ \E p \in Procs : getFeaturedProducts(p)
    \/ \E p \in Procs : getProductsByGamingSystem(p)
    \/ \E p \in Procs : GsEssentials(p)
    \/ \E p \in Procs : Finish(p)

SpecLists == InitLists /\ [][NextLists]_vars

\* the table of index.js holds product X or not, and nobody else writes
Legacy(id, name) ==
    [NoItem EXCEPT !.ID = id, !.Name = name, !.Category = "c1", !.Price = Cents(100),
                   !.Status = "active", !.CreatedAt = 0, !.UpdatedAt = 0]

InitIndex ==
    /\ Accounts = [a \in AccountIds |-> NoAccess]
    /\ GamingSystems = [s \in SystemIds |-> None]
    /\ S3 = {}
    /\ env \in EnvConfigs
    /\ pc = [p \in Procs |-> "idle"]
    /\ req = [p \in Procs |-> NoReq]
    /\ loc = [p \in Procs |-> NoLoc]
    /\ resp = [p \in Procs |-> NoResp]
    /\ hist = [p \in Procs |-> NoHist]
    /\ arrivals = 0
    /\ ownerWrites = 0
    /\ now = 0
    /\ Catalog \in { [i \in ProductIds |-> IF i = "X" THEN x ELSE NoItem] :
                        x \in {NoItem, Legacy("X", "n0")} }

\* the requests index.js is sent: every method, with and without product ID,
\* query and body, the body parseable or not (the id of a POST is the ID
\* createProduct generates)
IndexRequests ==
    LET bodies == { NoBody,
                    [NoBody EXCEPT !.Name = "n1", !.Category = "c1", !.Price = Cents(100)],
                    [NoBody EXCEPT !.Name = "n1", !.Category = "c1", !.Price = Cents(0)],
                    [NoBody EXCEPT !.Name = "n1", !.Category = "c1", !.Price = Words],
                    [NoBody EXCEPT !.Name = "n1", !.Price = Fractional(1250)] }
        queries == { NoQuery, [NoQuery EXCEPT !.category = "c1"],
                     [NoQuery EXCEPT !.status = "active"] }
        all == { [NoReq EXCEPT !.method = m, !.id = i, !.body = b, !.query = q] :
                    m \in EveryMethod, i \in RequestIds \cup {None},
                    b \in bodies, q \in queries }
        parsed == { r \in all : r.method = "POST" => r.id # None }
    IN parsed \cup { Unparseable(r) : r \in parsed }

NextIndex ==
    \/ \E p \in Procs, r \in IndexRequests : Slot(p) /\ Quiet(p) /\ index_handler(p, r)
    \/ \E p \in Procs : index_getProduct(p)
    \/ \E p \in Procs : index_getAllProducts(p)
    \/ \E p \in Procs : index_getProductsByCategory(p)
    \/ \E p \in Procs : index_getProductsByStatus(p)
    \/ \E p \in Procs : index_createProduct(p)
    \/ \E p \in Procs : index_updateProduct(p)
    \/ \E p \in Procs : index_deleteProduct(p)
    \/ \E p \in Procs : Finish(p)

SpecIndex == InitIndex /\ [][NextIndex]_vars

\* SpecBodies: an administrator creates and updates product X, one request
\* at a time, with bodies of every kind: required fields missing, Items that
\* fail a test of the validation, Prices of every JSON type, with and without
\* image and ID.
AUuid == "123e4567-e89b-12d3-a456-426614174000"

ItemLists ==
    { NoItems, NotArray, Array(<<>>),
      Array(<< Item("Classes", None) >>),
      Array(<< Item("Maps", AUuid) >>),
      Array(<< Item("Classes", None), Item("Weapons", None) >>),
      Array(<< Item("Classes", None), Item(None, None) >>),
      Array(<< Item("Maps", None) >>),
      Array(<< Item("Spells", "42") >>) }

Prices == { NoPrice, Cents(0), Cents(250), Fractional(12), Digits(5), Words }

\* the bodies of the create requests: one field differs from a valid body
CreateVariants ==
    LET valid == Priced(Body("n1", "S", None))
        fields == { valid, [valid EXCEPT !.Name = None],
                    [valid EXCEPT !.GamingSystemID = None] }
                  \cup { [valid EXCEPT !.Price = c] : c \in Prices }
                  \cup { [valid EXCEPT !.Items = l] : l \in ItemLists }
    IN { [b EXCEPT !.imageBase64 = g, !.ID = i] :
            b \in fields, g \in {None, "img1"}, i \in {None, "X"} }

\* the bodies of the update requests
UpdateVariants ==
    { [Body(n, None, g) EXCEPT !.Price = c] :
         n \in {None, "n3"}, g \in {None, "img1"}, c \in Prices } \ {NoBody}

BodyRequests ==
    { [NoReq EXCEPT !.method = "POST", !.id = "X", !.path = AdminShop,
                    !.auth = "admin", !.body = b] : b \in CreateVariants }
    \cup { [NoReq EXCEPT !.method = "PUT", !.id = "X", !.path = AdminShopId,
                         !.auth = "admin", !.body = b] : b \in UpdateVariants }

NextBodies ==
    \/ \E p \in Procs, r \in BodyRequests : Slot(p) /\ Quiet(p) /\ handler(p, r)
    \/ \E p \in Procs : CrUpload(p)
    \/ \E p \in Procs : CrPut(p)
    \/ \E p \in Procs : UpGet(p)
    \/ \E p \in Procs : UpUpload(p)
    \/ \E p \in Procs : UpUpdate(p)
    \/ \E p \in Procs : Finish(p)

SpecBodies == InitRace /\ [][NextBodies]_vars

\* SpecCleanup: an administrator creates product X, replaces its image,
\* changes its system, attaches an image and deletes it, one request at a time,
\* in a deployment with any setting of STAGE and ENVIRONMENT; nobody refers to
\* the product.  At first the product is absent, or present with the image a
\* create uploaded for it.
DeploymentConfigs ==
    { [STAGE |-> s, ENVIRONMENT |-> e] : s \in {None, "dev"}, e \in {None, "dev", "prod"} }

InitCleanup ==
    /\ env \in DeploymentConfigs
    /\ \/ /\ Catalog = [i \in ProductIds |-> NoItem]
          /\ S3 = {}
       \/ /\ Catalog = [i \in ProductIds |->
                           IF i = "X"
                           THEN Stamped(Product("X", "n0", "S", ImageKey("S", "X")), 0)
                           ELSE NoItem]
          /\ S3 = {[bucket |-> Bucket(UploadEnvironment), gs |-> "S", id |-> "X",
                    body |-> "img1"]}
    /\ Accounts = [a \in AccountIds |-> NoAccess]
    /\ GamingSystems = [s \in SystemIds |-> None]
    /\ pc = [p \in Procs |-> "idle"]
    /\ req = [p \in Procs |-> NoReq]
    /\ loc = [p \in Procs |-> NoLoc]
    /\ resp = [p \in Procs |-> NoResp]
    /\ hist = [p \in Procs |-> NoHist]
    /\ arrivals = 0
    /\ ownerWrites = 0
    /\ now = 0

CleanupRequests ==
    LET request(m, t, b) == [NoReq EXCEPT !.method = m, !.id = "X", !.path = t,
                                          !.auth = "admin", !.body = b]
    IN { request("POST", AdminShop, Priced(Body("n1", "S", "img1"))),
         request("PUT", AdminShopId, Body(None, None, "img2")),
         request("PUT", AdminShopId, Body(None, "T", None)),
         request("POST", AdminShop \o UploadImage, Body(None, "S", "img2")),
         request("DELETE", AdminShopId, NoBody) }

NextCleanup ==
    \/ \E p \in Procs, r \in CleanupRequests : Slot(p) /\ Quiet(p) /\ handler(p, r)
    \/ \E p \in Procs : DelGet(p)
    \/ \E p \in Procs : DelScanAccounts(p)
    \/ \E p \in Procs : DelScanSystems(p)
    \/ \E p \in Procs : DelDelete(p)
    \/ \E p \in Procs : DelListFolder(p)
    \/ \E p \in Procs : DelObjects(p)
    \/ \E p \in Procs : CrUpload(p)
    \/ \E p \in Procs : CrPut(p)
    \/ \E p \in Procs : UpGet(p)
    \/ \E p \in Procs : UpUpload(p)
    \/ \E p \in Procs : UpUpdate(p)
    \/ \E p \in Procs : ImgUpload(p)
    \/ \E p \in Procs : ImgUpdate(p)
    \/ \E p \in Procs : Finish(p)

SpecCleanup == InitCleanup /\ [][NextCleanup]_vars

\* SpecFair: DELETE requests of an administrator arrive one at a time over
\* tables in which no, one or both accounts hold product X and no, one or both
\* systems require it; nobody writes the tables meanwhile.  Every storage call
\* of an open invocation is answered, by a result or by an error: the step that
\* follows an await is taken.
InitFair ==
    /\ Start({NoAccess, [S |-> List(<<"X">>), T |-> Missing]})
    /\ GamingSystems \in [SystemIds -> {None, "X"}]

NextFair ==
    \/ \E p \in Procs, r \in Deletes : Slot(p) /\ Quiet(p) /\ handler(p, r)
    \/ \E p \in Procs : DelGet(p)
    \/ \E p \in Procs : DelScanAccounts(p)
    \/ \E p \in Procs : DelScanSystems(p)
    \/ \E p \in Procs : DelDelete(p)
    \/ \E p \in Procs : DelListFolder(p)
    \/ \E p \in Procs : DelObjects(p)
    \/ \E p \in Procs : Finish(p)

Answers ==
    \A p \in Procs :
        /\ WF_vars(DelGet(p))
        /\ WF_vars(DelScanAccounts(p))
        /\ WF_vars(DelScanSystems(p))
        /\ WF_vars(DelDelete(p))
        /\ WF_vars(DelListFolder(p))
        /\ WF_vars(DelObjects(p))

SpecFair == InitFair /\ [][NextFair]_vars /\ Answers

(***************************************************************************)
(* Properties                                                              *)
(***************************************************************************)
Answered(p, method) == pc[p] = "done" /\ req[p].method = method

\* every storage call of p was answered and nobody else wrote p's item
Undisturbed(p) == ~hist[p].faulted /\ hist[p].intr = {}

Range(seq) == {seq[i] : i \in 1..Len(seq)}

\* the accounts whose entitlement list under system gs contains id
Holders(id, gs) ==
    {a \in AccountIds : /\ Accounts[a][gs].kind = "list"
                        /\ id \in Range(Accounts[a][gs].ids)}

\* the systems that declare id as their required item
Requirers(id) == {s \in SystemIds : GamingSystems[s] = id}

\* C1: a DELETE of an ID that is absent from the Catalog at lookup time is
\* never answered 409, and is answered 404 whenever the lookup is answered,
\* whatever the Accounts and GamingSystems tables hold.
DeleteAbsentIsNotFound ==
    \A p \in Procs :
        Answered(p, "DELETE") /\ hist[p].pre = NoItem /\ hist[p].intr = {}
        => /\ resp[p].statusCode # 409
           /\ ~hist[p].faulted => resp[p].statusCode = 404

DeleteAbsentReferenced ==
    \E p \in Procs :
        /\ Answered(p, "DELETE") /\ hist[p].pre = NoItem
        /\ resp[p].statusCode = 404
        /\ Holders(req[p].id, "S") # {}
        /\ Requirers(req[p].id) # {}

\* C2: a DELETE of an existing item that no account holds under the item's
\* system and no system requires, with no concurrent request and every storage
\* call answered, returns 200 and removes the item; a later lookup of the ID
\* returns 404.
DeleteUnreferencedSucceeds ==
    \A p \in Procs :
        /\ Answered(p, "DELETE") /\ Undisturbed(p)
        /\ hist[p].pre # NoItem
        /\ Holders(req[p].id, hist[p].pre.GamingSystemID) = {}
        /\ Requirers(req[p].id) = {}
        => /\ resp[p].statusCode = 200
           /\ Catalog[req[p].id] = NoItem
           /\ \A q \in Procs :
                 /\ Answered(q, "GET") /\ req[q].id = req[p].id
                 /\ hist[p].seq \in hist[q].prior /\ ~hist[q].faulted
                 => resp[q].statusCode = 404

DeletedThenLookedUp ==
    \E p, q \in Procs :
        /\ Answered(p, "DELETE") /\ resp[p].statusCode = 200
        /\ Answered(q, "GET") /\ req[q].id = req[p].id /\ hist[p].seq \in hist[q].prior
        /\ resp[q].statusCode = 404

\* C3: a DELETE of an existing item X owned by system S that some account A
\* holds under S returns 409, lists A with its ID and Email among the accounts,
\* and leaves the item in the Catalog.
DeleteHeldIsRefused ==
    \A p \in Procs :
        /\ Answered(p, "DELETE") /\ Undisturbed(p)
        /\ hist[p].pre # NoItem
        => \A a \in Holders(req[p].id, hist[p].pre.GamingSystemID) :
              /\ resp[p].statusCode = 409
              /\ [ID |-> a, Email |-> Email(a)] \in Range(resp[p].accounts)
              /\ Catalog[req[p].id] = hist[p].pre

HeldItemRefused ==
    \E p \in Procs :
        /\ Answered(p, "DELETE") /\ resp[p].statusCode = 409
        /\ hist[p].pre # NoItem
        /\ Holders(req[p].id, hist[p].pre.GamingSystemID) = {"A"}
        /\ Requirers(req[p].id) = {}

\* C4: a DELETE of an existing item that some system declares as its required
\* item returns 409, names the system in the message and lists it among the
\* gamingSystems, whether or not an account holds the item.
DeleteRequiredIsRefused ==
    \A p \in Procs :
        /\ Answered(p, "DELETE") /\ Undisturbed(p)
        /\ hist[p].pre # NoItem
        => \A s \in Requirers(req[p].id) :
              /\ resp[p].statusCode = 409
              /\ \E i \in 1..Len(resp[p].message) :
                    /\ resp[p].message[i].part = "systems"
                    /\ SystemName(s) \in Range(resp[p].message[i].names)
              /\ [ID |-> s, Name |-> SystemName(s)] \in Range(resp[p].gamingSystems)

RequiredItemRefusedWithoutHolders ==
    \E p \in Procs :
        /\ Answered(p, "DELETE") /\ resp[p].statusCode = 409
        /\ Requirers(req[p].id) = {"T"}
        /\ resp[p].accounts = <<>>
        /\ Holders(req[p].id, hist[p].pre.GamingSystemID) = {}

\* the table items a scan has passed when its continuation token is key
Passed(order, key) == {order[i] : i \in 1..key}

\* C5: both scans resume where the previous page ended and run until a page
\* carries no token: while a scan runs it has collected exactly the blockers
\* among the items passed so far, whatever the split into pages, and the
\* verdict rests on the blockers of the whole tables.
ScansRunToExhaustion ==
    \A p \in Procs :
        LET id == req[p].id
            gs == hist[p].pre.GamingSystemID
            held == {r.ID : r \in Range(loc[p].accountsWithAccess)}
            needed == {r.ID : r \in Range(loc[p].gamingSystemsRequiringItem)}
        IN /\ pc[p] = "del_scanAccounts" /\ hist[p].intr = {}
              => /\ held = Holders(id, gs) \cap Passed(AccountOrder, loc[p].lastEvaluatedKey)
                 /\ Len(loc[p].accountsWithAccess) = Cardinality(held)
           /\ pc[p] = "del_scanSystems" /\ hist[p].intr = {}
              => /\ held = Holders(id, gs)
                 /\ needed = Requirers(id) \cap Passed(SystemOrder, loc[p].gsLastEvaluatedKey)
                 /\ Len(loc[p].gamingSystemsRequiringItem) = Cardinality(needed)
           /\ Answered(p, "DELETE") /\ Undisturbed(p) /\ hist[p].pre # NoItem
              => /\ resp[p].statusCode = 409 <=> Holders(id, gs) \cup Requirers(id) # {}
                 /\ resp[p].statusCode = 409
                    => /\ {r.ID : r \in Range(resp[p].accounts)} = Holders(id, gs)
                       /\ {r.ID : r \in Range(resp[p].gamingSystems)} = Requirers(id)

BlockersOnLastPages ==
    \E p \in Procs :
        /\ Answered(p, "DELETE") /\ resp[p].statusCode = 409
        /\ hist[p].accStart # NoKey
        /\ hist[p].emptyPage
        /\ {r.ID : r \in Range(resp[p].accounts)} = {AccountOrder[Len(AccountOrder)]}
        /\ {r.ID : r \in Range(resp[p].gamingSystems)} = {SystemOrder[Len(SystemOrder)]}

\* C6: a DELETE that repeats a refused DELETE of the same item, with the three
\* tables unchanged in between, is refused again with the same blocking
\* accounts and the same blocking systems.
RefusalRepeats ==
    \A p, q \in Procs :
        /\ Answered(p, "DELETE") /\ Answered(q, "DELETE")
        /\ req[q].id = req[p].id /\ hist[p].seq \in hist[q].prior
        /\ Undisturbed(p) /\ Undisturbed(q)
        /\ resp[p].statusCode = 409
        => /\ resp[q].statusCode = 409
           /\ Range(resp[q].accounts) = Range(resp[p].accounts)
           /\ Range(resp[q].gamingSystems) = Range(resp[p].gamingSystems)

RefusedTwice ==
    \E p, q \in Procs :
        /\ Answered(p, "DELETE") /\ Answered(q, "DELETE")
        /\ req[q].id = req[p].id /\ hist[p].seq \in hist[q].prior
        /\ resp[p].statusCode = 409 /\ resp[q].statusCode = 409
        /\ Len(resp[q].accounts) = 2
        /\ Len(resp[q].gamingSystems) = 1

\* the stored image of item: the objects under the key createProduct uploads to
StoredImages(item) ==
    {o.body : o \in {o \in S3 : /\ o.bucket = Bucket(UploadEnvironment)
                                /\ o.gs = item.GamingSystemID
                                /\ o.id = item.ID}}

\* C7: of two valid create requests with the same ID, in any interleaving,
\* exactly one returns 201 and the other 409, the stored item is the one
\* written by the request that returned 201, and the loser overwrites nothing:
\* the image the winner uploaded is still the stored one.
CreateLoserOverwritesNothing ==
    \A p, q \in Procs :
        /\ p # q /\ Answered(p, "POST") /\ Answered(q, "POST")
        /\ req[q].id = req[p].id
        /\ ~hist[p].faulted /\ ~hist[q].faulted
        /\ hist[p].pre = NoItem
        /\ hist[p].intr \cup hist[q].intr \subseteq {"created"}
        => \E w, l \in {p, q} :
              /\ w # l
              /\ resp[w].statusCode = 201 /\ resp[l].statusCode = 409
              /\ Catalog[req[w].id] = resp[w].item
              /\ req[w].body.imageBase64 # None
                 => StoredImages(resp[w].item) = {req[w].body.imageBase64}

DeleteRaceHasOneWinner ==
    \A p, q \in Procs :
        /\ p # q /\ Answered(p, "DELETE") /\ Answered(q, "DELETE")
        /\ req[q].id = req[p].id
        /\ hist[p].seq \notin hist[q].prior /\ hist[q].seq \notin hist[p].prior
        /\ ~hist[p].faulted /\ ~hist[q].faulted
        /\ hist[p].pre # NoItem /\ hist[q].pre # NoItem
        /\ hist[p].intr \cup hist[q].intr \subseteq {"deleted"}
        /\ Holders(req[p].id, hist[p].pre.GamingSystemID) \cup Requirers(req[p].id) = {}
        => \E w, l \in {p, q} :
              /\ w # l
              /\ resp[w].statusCode = 200 /\ resp[l].statusCode = 404
              /\ hist[l].cleanup = None

\* the loser looked the item up before the winner's delete and found it gone
\* at its own conditioned delete
DeleteRaceLost ==
    \E w, l \in Procs :
        /\ Answered(w, "DELETE") /\ Answered(l, "DELETE")
        /\ resp[w].statusCode = 200 /\ resp[l].statusCode = 404
        /\ hist[l].pre # NoItem /\ "deleted" \in hist[l].intr
        /\ hist[l].accStart # NoKey

\* C10: when the catalog record was deleted and the artifact cleanup then fails
\* at listing or at deleting the stored objects, the DELETE still returns 200
\* with the deleted product, and the record stays deleted.
CleanupFailureIsSwallowed ==
    \A p \in Procs :
        /\ Answered(p, "DELETE")
        /\ hist[p].cleanup \in {"listFailed", "deleteFailed"}
        /\ hist[p].intr = {}
        => /\ resp[p].statusCode = 200
           /\ resp[p].item = hist[p].pre
           /\ Catalog[req[p].id] = NoItem

CleanupFailedAtDelete ==
    \E p \in Procs :
        /\ Answered(p, "DELETE") /\ hist[p].cleanup = "deleteFailed"
        /\ resp[p].statusCode = 200
        /\ S3 # {}

\* C11: an account whose Access entry for the item's system is no list of IDs
\* (a string, a number, a map) counts as holding nothing: a DELETE whose storage
\* calls are all answered does not fail, and it lists only the accounts whose
\* entry is a list that contains the ID.
MalformedAccessIsNoEntitlement ==
    \A p \in Procs :
        /\ Answered(p, "DELETE") /\ Undisturbed(p)
        /\ hist[p].pre # NoItem
        => /\ resp[p].statusCode \in {200, 409}
           /\ {r.ID : r \in Range(resp[p].accounts)}
                 = Holders(req[p].id, hist[p].pre.GamingSystemID)

\* C12: a DELETE one of whose scan page requests failed returns 500 with
\* operation deleteProduct, has issued no delete and leaves the item in place;
\* the conditioned delete is reached only with both scans run to their end
\* without error and both blocker lists empty.
ScanFailureRefusesDelete ==
    \A p \in Procs :
        /\ /\ Answered(p, "DELETE")
           /\ hist[p].faultAt \in {"del_scanAccounts", "del_scanSystems"}
           => /\ resp[p].statusCode = 500
              /\ resp[p].operation = "deleteProduct"
              /\ hist[p].cleanup = None
              /\ hist[p].intr = {} => Catalog[req[p].id] = hist[p].pre
        /\ pc[p] \in {"del_delete", "del_list", "del_objects"} \/ hist[p].cleanup # None
           => /\ hist[p].faultAt \notin {"del_get", "del_scanAccounts", "del_scanSystems"}
              /\ hist[p].intr = {}
                 => Holders(req[p].id, hist[p].pre.GamingSystemID)
                       \cup Requirers(req[p].id) = {}
        /\ pc[p] = "del_delete"
           => /\ loc[p].accountsWithAccess = <<>>
              /\ loc[p].gamingSystemsRequiringItem = <<>>
              /\ loc[p].lastEvaluatedKey = NoKey
              /\ loc[p].gsLastEvaluatedKey = NoKey

\* the systems scan fails after the accounts scan found nothing
ScanFailedBeforeDelete ==
    \E p \in Procs :
        /\ Answered(p, "DELETE") /\ hist[p].faultAt = "del_scanSystems"
        /\ resp[p].statusCode = 500
        /\ Catalog[req[p].id] # NoItem
        /\ Holders(req[p].id, hist[p].pre.GamingSystemID) \cup Requirers(req[p].id) = {}

\* a DELETE request is being served
Deleting(p) == req[p].method = "DELETE" /\ pc[p] \notin {"idle", "done"}

\* C13: no step of a DELETE request writes the Accounts or GamingSystems table;
\* the Catalog changes only at the conditioned delete, which removes the record
\* and is the only way into the artifact cleanup; the stored artifacts change
\* only in that cleanup; and a request that has removed the record returns 200,
\* so a request answered 404, 409 or 500 has written nothing.
DeleteWritesOnlyOnSuccess ==
    [][\A p \in Procs :
          Deleting(p) /\ <<pc[p], loc[p]>>' # <<pc[p], loc[p]>>
          => /\ Accounts' = Accounts /\ GamingSystems' = GamingSystems
             /\ Catalog' # Catalog => pc[p] = "del_delete" /\ pc'[p] = "del_list"
             /\ pc[p] # "del_list" /\ pc'[p] = "del_list"
                => /\ Catalog[req[p].id] # NoItem
                   /\ Catalog' = [Catalog EXCEPT ![req[p].id] = NoItem]
             /\ S3' # S3 => pc[p] = "del_objects"
             /\ pc[p] \in {"del_list", "del_objects"} /\ pc'[p] = "done"
                => resp'[p].statusCode = 200
             /\ pc[p] \notin {"del_list", "del_objects"} /\ pc'[p] = "done"
                => resp'[p].statusCode \in {404, 409, 500}]_vars

\* a refused DELETE of an item that has a stored image
RefusedWithArtifacts ==
    \E p \in Procs :
        /\ Answered(p, "DELETE") /\ resp[p].statusCode = 409
        /\ Catalog[req[p].id] = hist[p].pre /\ hist[p].pre # NoItem
        /\ FolderObjects(hist[p].pre.GamingSystemID, req[p].id, DeleteEnvironment) # {}

\* C14: a record enters the Catalog only through the conditioned put of a create
\* request answered 201; an update, an image attach or a delete applied to an
\* ID that is not in the Catalog fails as not-found.
OnlyCreateAddsRecords ==
    [][/\ \A i \in ProductIds :
             Catalog[i] = NoItem /\ Catalog'[i] # NoItem
             => \E p \in Procs : /\ pc[p] = "cr_put" /\ req[p].id = i
                                  /\ resp'[p].statusCode = 201
       /\ \A p \in Procs :
             /\ pc[p] \in {"up_update", "img_update", "del_delete"}
             /\ Catalog[req[p].id] = NoItem
             /\ pc'[p] = "done" /\ ~hist'[p].faulted
             => resp'[p].statusCode = 404]_vars

\* C19: a request is routed to a create, an update, an image attach or a delete
\* only when its caller was authenticated as an administrator: no other caller
\* gets to a write of the Catalog, whatever the path and the method.
WritesOnlyByAdministrators ==
    \A p \in Procs :
        \/ pc[p] \in {"cr_upload", "cr_put", "up_get", "up_upload", "up_update",
                      "del_get", "del_scanAccounts", "del_scanSystems", "del_delete"}
        \/ Answered(p, "POST") /\ resp[p].statusCode = 201
        => checkAuthentication(req[p].auth) = [statusCode |-> 200, isAdmin |-> TRUE]

\* C20: a parsed request of a routed method on a path that contains /admin/shop whose caller is not
\* authenticated as an administrator is answered at once, with the status of the
\* authentication check, or with 403 when the check succeeded: it never waits on
\* a storage call or an upload.
AdminRouteRefusesOthers ==
    \A p \in Procs :
        LET authResult == checkAuthentication(req[p].auth)
        IN /\ pc[p] # "idle"
           /\ req[p].method \in Methods /\ ~req[p].malformed
           /\ PathIncludes(req[p].path, AdminShop)
           /\ authResult # [statusCode |-> 200, isAdmin |-> TRUE]
           => /\ pc[p] = "done"
              /\ resp[p].statusCode = IF authResult.statusCode # 200
                                      THEN authResult.statusCode ELSE 403

\* a PUT or PATCH answered 200 that nothing interfered with
UpdateSucceeded(p) ==
    /\ Answered(p, "PUT") \/ Answered(p, "PATCH")
    /\ resp[p].statusCode = 200 /\ Undisturbed(p)

\* the value an update leaves in a field: the body's if the body names it
Replaced(bodyValue, oldValue) == IF bodyValue # None THEN bodyValue ELSE oldValue

TimestampsOrdered ==
    [][\A i \in ProductIds :
          Catalog'[i] # NoItem
          => /\ Catalog'[i].CreatedAt # NoTime
             /\ Catalog'[i].UpdatedAt # NoTime
             /\ Catalog'[i].UpdatedAt >= Catalog'[i].CreatedAt
             /\ Catalog[i] # NoItem => Catalog'[i].UpdatedAt >= Catalog[i].UpdatedAt]_vars

\* the requests p and q were open at the same time
Overlap(p, q) ==
    /\ p # q
    /\ hist[p].seq \notin hist[q].prior /\ hist[q].seq \notin hist[p].prior

\* C17: two updates that race on the same field of the same item, each with its
\* own value, are not both answered 200: the one whose value is overwritten is
\* told so by a 404 or a 409.
LostUpdateIsReported ==
    \A p, q \in Procs :
        /\ Overlap(p, q)
        /\ Answered(p, "PUT") \/ Answered(p, "PATCH")
        /\ Answered(q, "PUT") \/ Answered(q, "PATCH")
        /\ req[p].id = req[q].id
        /\ ~hist[p].faulted /\ ~hist[q].faulted
        /\ req[p].body.Name # None /\ req[q].body.Name # None
        /\ req[p].body.Name # req[q].body.Name
        => \/ resp[p].statusCode \in {404, 409}
           \/ resp[q].statusCode \in {404, 409}

\* C18: the guard is not atomic with the Accounts and GamingSystems tables.  A
\* DELETE answered 200 leaves behind an entitlement or a dependency on the
\* deleted item exactly through this window: the reference was written after
\* the scan had passed its record and before the conditioned delete (or after
\* the delete); a reference written before the scan reached its record is
\* found, and the DELETE is refused.
DanglingOnlyThroughWindow ==
    \A p \in Procs :
        /\ Answered(p, "DELETE") /\ ~hist[p].faulted /\ hist[p].pre # NoItem
        => LET blockers == Holders(req[p].id, hist[p].pre.GamingSystemID)
                              \cup Requirers(req[p].id)
           IN /\ resp[p].statusCode = 200 /\ blockers # {}
                 => hist[p].intr \cap {"late", "after"} # {}
              /\ hist[p].intr \subseteq {"env"}
                 => (resp[p].statusCode = 409 <=> blockers # {})

\* an account gained the entitlement after the accounts scan had passed it and
\* before the delete: the DELETE returned 200 and the entitlement dangles
EntitlementDangles ==
    \E p \in Procs :
        /\ Answered(p, "DELETE") /\ resp[p].statusCode = 200
        /\ hist[p].intr = {"late"}
        /\ Catalog[req[p].id] = NoItem
        /\ Holders(req[p].id, hist[p].pre.GamingSystemID) # {}

\* the status codes of handler.ts and of the authentication check
StatusCodes == {200, 201, 400, 401, 403, 404, 405, 409, 500}

\* C22: an invocation that has ended has returned a response, and only such an
\* invocation has one (no throw leaves the handler): whatever the method, the
\* path, the caller and the body, parseable or not, and whichever storage call
\* or upload failed, the response has a status code and the CORS headers.
EveryRequestIsAnswered ==
    \A p \in Procs :
        /\ pc[p] = "done" <=> resp[p] # NoResp
        /\ pc[p] = "done" => /\ resp[p].statusCode \in StatusCodes
                             /\ resp[p].headers = CORS_HEADERS

\* a POST whose body is not JSON was answered 500
UnparseableAnswered ==
    \E p \in Procs : /\ pc[p] = "done" /\ req[p].malformed /\ req[p].method = "POST"
                      /\ resp[p] = handleError("handler")

\* C23: a response with status 500 has an error tag, a message and the name of
\* the operation that failed.
ServerErrorNamesOperation ==
    \A p \in Procs :
        pc[p] = "done" /\ resp[p].statusCode = 500
        => /\ resp[p].error # None
           /\ resp[p].message # <<>>
           /\ resp[p].operation # None

\* a list answered 200 whose storage calls all succeeded
Listed200(p) ==
    /\ pc[p] = "done" /\ req[p].method = "GET" /\ req[p].id = None
    /\ resp[p].statusCode = 200 /\ ~hist[p].faulted

\* the IDs of the products of a list response, and the number of times an ID
\* occurs among IDs
Ids(products) == [n \in 1..Len(products) |-> products[n].ID]
Count(ids, i) == Cardinality({n \in 1..Len(ids) : ids[n] = i})

\* whether the list of request r selects product i, archived or not
Selects(r, i) ==
    /\ Catalog[i] # NoItem
    /\ CASE ListOperation(r) = "getProductsByGamingSystem" ->
                Catalog[i].GamingSystemID = SystemOf(r)
         [] ListOperation(r) = "getFeaturedProducts" -> Catalog[i].IsFeatured = "true"
         [] ListOperation(r) = "getProductsByType" -> Catalog[i].Type = r.query.type
         [] OTHER -> TRUE

\* the products the list of request r matches, as its filter is built
Matching(r) ==
    {i \in ProductIds :
        /\ Selects(r, i)
        /\ NotArchived(i, IF ListOperation(r) = "getAllProducts"
                          THEN IncludeArchivedAll(r.query, PathIncludes(r.path, AdminShop))
                          ELSE IncludeArchived(r.query))}

\* C24: a list response has a lastKey exactly when the storage page had a
\* LastEvaluatedKey; the request that passes the lastKey back starts its page
\* from that key; and when a caller has followed the lastKeys from the first
\* page to a response without one, every product the list matches was on the
\* pages exactly once (nobody writes meanwhile).
LastKeyWalksOnce ==
    \A p \in Procs :
        Listed200(p)
        => /\ resp[p].lastKey # <<>> <=> hist[p].pageKey # NoStartKey
           /\ resp[p].lastKey # <<>>
                 => ExclusiveStartKey(FollowUp(p).query) = hist[p].pageKey
           /\ resp[p].lastKey = <<>>
                 => \A i \in Matching(req[p]) :
                       Count(hist[p].walked \o Ids(resp[p].products), i) = 1

\* C28: an archived product that a list selects is in the response of a public
\* route only with includeArchived=true, and is in the response of an admin
\* route unless includeArchived=false, when the page evaluated it: for the list
\* of all products, by type, by gaming system and of the featured ones.
ArchivedByRoute ==
    \A p \in Procs :
        Listed200(p)
        => LET include == IF PathIncludes(req[p].path, AdminShop)
                          THEN req[p].query.includeArchived # "false"
                          ELSE req[p].query.includeArchived = "true"
           IN \A i \in ProductIds :
                 Catalog[i].IsArchived = "true" /\ Selects(req[p], i)
                 => /\ Count(Ids(resp[p].products), i) > 0 => include
                    /\ include /\ Count(hist[p].evaluated, i) > 0
                          => Count(Ids(resp[p].products), i) > 0

\* C21: a request with method OPTIONS is answered at once with status 200, an
\* empty JSON object and the CORS headers, by the TypeScript handler and by the
\* JavaScript handler alike, whatever its path, credentials and body.
OptionsGetsPreflight ==
    \A p \in Procs :
        pc[p] # "idle" /\ req[p].method = "OPTIONS"
        => /\ pc[p] = "done"
           /\ resp[p] \in {response(200, NoResp), index_response(200, NoResp)}
           /\ ~hist[p].authChecked

\* C25: every record of the Catalog has a whole number as Price, whatever
\* create and update requests were served.
StoredPriceIsInteger ==
    \A i \in ProductIds : Catalog[i] # NoItem => Catalog[i].Price.kind = "integer"

\* the create bodies the validation is to refuse: a required field missing,
\* Items not a non-empty array, an item with a Type outside the six types, an
\* item of type Maps, Modules or Shop without ID, an item ID that is no UUID
FailsValidation(body) ==
    \/ body.Name = None \/ body.Price = NoPrice \/ body.GamingSystemID = None
    \/ body.Items.kind # "array" \/ body.Items.list = <<>>
    \/ \E n \in 1..Len(body.Items.list) :
          LET item == body.Items.list[n]
          IN \/ item.Type \notin {"Maps", "Classes", "Spells", "Races", "Modules", "Shop"}
             \/ item.Type \in {"Maps", "Modules", "Shop"} /\ item.ID = None
             \/ item.ID # None /\ item.ID # AUuid

BlockersAreHolders ==
    \A p \in Procs :
        /\ Answered(p, "DELETE") /\ Undisturbed(p)
        /\ resp[p].statusCode = 409
        => /\ \A a \in AccountIds :
                 Cardinality({n \in 1..Len(resp[p].accounts) : resp[p].accounts[n].ID = a})
                    = IF a \in Holders(req[p].id, hist[p].pre.GamingSystemID) THEN 1 ELSE 0
           /\ {r.ID : r \in Range(resp[p].gamingSystems)} \subseteq Requirers(req[p].id)

\* C29: when a DELETE is answered 200 and its cleanup met no error, no stored
\* object of the item is left: every image a create, an update or an image
\* attachment uploaded for it in this deployment is gone, also when an update
\* changed the item's system after the upload.
CleanDeleteLeavesNothing ==
    \A p \in Procs :
        /\ Answered(p, "DELETE") /\ Undisturbed(p)
        /\ resp[p].statusCode = 200
        /\ hist[p].cleanup \in {"empty", "removed"}
        => \A o \in S3 : o.id # req[p].id

\* C30: a DELETE that has entered deleteProduct ends: over finite Accounts and
\* GamingSystems tables, with every storage call answered and every scan
\* reaching a page without key, the invocation leaves both scan loops and
\* returns a response with status 200, 404, 409 or 500.
DeleteTerminates ==
    \A p \in Procs :
        (pc[p] = "del_get")
        ~> (pc[p] = "done" /\ req[p].method = "DELETE"
                           /\ resp[p].statusCode \in {200, 404, 409, 500})

\* a DELETE has gone through an accounts scan of more than one page and a
\* systems scan, and has returned
DeleteScannedAndReturned ==
    \E p \in Procs :
        /\ Answered(p, "DELETE") /\ hist[p].accStart # NoKey
        /\ resp[p].statusCode \in {200, 409}

====
